---- MODULE Spec2Model ----
(***************************************************************************)
(* Tenant data lifecycle of the ephit backend: AdminService.clear_user_data*)
(* (api/admin_service.py) behind the admin router (api/routers/admin.py),  *)
(* over the record store, the object storage and the local filesystem.     *)
(*                                                                         *)
(* Strings that the code takes apart are modelled by their parts:          *)
(*   "user:u1"              is <<"user", "u1">>          (split at ":")     *)
(*   "s3://bkt/ep/e1.mp3"   is <<"s3:", "", "bkt", "ep", "e1.mp3">> ("/")   *)
(*   "data/d1/f1.mp3"       is <<"data", "d1", "f1.mp3">>          ("/")   *)
(* and the empty sequence is the empty string / None (a falsy locator).    *)
(* A RecordID of the store is a record [tb |-> table, id |-> key].         *)
(***************************************************************************)
EXTENDS Integers, Sequences, FiniteSets, Bags, TLC

VARIABLES
    db,      \* the record store: one set of rows per table
    ext,     \* external assets: [files, dirs, s3]
    call,    \* call[c]: the state of the request running in slot c
    ncalls,  \* number of requests started so far
    prev,    \* the user cleared by the last finished request, <<>> if none
    ever,    \* which kinds of fault have happened so far
    orig,    \* the store and the assets as they were initially
    link,    \* the add_source_to_notebook request in flight
    script,  \* the run of scripts/assign_owners_to_existing_data.py
    adm,     \* the admin read request (list_users / get_user_detail) in flight
    env,     \* os.environ of the process: one value per variable
    ctx,     \* ctx[k]: the user_provider_context entered by task k
    health,  \* the GET /health request in flight and the migration versions
    route,   \* the notebook route (other than the link request) in flight
    sreq,    \* sreq[k]: the provider-secret request running in task k
    auth,    \* the request passing through the security dependencies
    upl,     \* the run of scripts/upload_existing_podcasts_to_s3.py
    setadm   \* the run of scripts/set_admin.py

\* the state of the requests that are not part of the data lifecycle
more == <<sreq, auth, upl, setadm>>
aux == <<adm, env, ctx, health, route, more>>

vars == <<db, ext, call, ncalls, prev, ever, orig, link, script, aux>>

----------------------------------------------------------------------------
(* Bounds of the model *)

MaxCalls == 2       \* requests started in one behaviour
MaxFaults == 1      \* injected faults (query, storage, filesystem) per behaviour

----------------------------------------------------------------------------
(* Identifiers *)

RID(tb, k) == [tb |-> tb, id |-> k]

U1 == RID("user", "u1")
U2 == RID("user", "u2")
U10 == RID("user", "u10")
Users == {U1, U2}

\* identifiers as they arrive in the request path / live in User.id (strings)
StrU1 == <<"user", "u1">>
StrU2 == <<"user", "u2">>
StrU10 == <<"user", "u10">>
StrGhost == <<"user", "ghost">>

NotebookIds == {RID("notebook", "n1"), RID("notebook", "n2")}
SourceIds == {RID("source", "s1"), RID("source", "s2")}
NoteIds == {RID("note", "t1")}
EpisodeIds == {RID("episode", "e1"), RID("episode", "e2")}

NoAudio == <<>>
S3Url1 == <<"s3:", "", "bkt", "episodes", "e1.mp3">>
S3NoKey == <<"s3:", "", "bkt">>
Local1 == <<"data", "d1", "f1.mp3">>
Local2 == <<"data", "d1", "f2.mp3">>
OtherFile == <<"data", "d1", "cover.png">>
Dir1 == <<"data", "d1">>
OtherKey == <<"episodes", "other.mp3">>

----------------------------------------------------------------------------
(* External collaborators *)

\* the failure of ensure_record_id: the input has no canonical shape
InvalidIdentifier == [tb |-> "", id |-> "invalid"]

\* open_notebook.database.repository.ensure_record_id on a string: "table:key"
\* is parsed into the reference, a string of any other shape is refused
ensure_record_id(s) ==
    IF Len(s) = 2 THEN [tb |-> s[1], id |-> s[2]] ELSE InvalidIdentifier

\* str.startswith("s3://")
IsS3Url(af) == Len(af) >= 3 /\ af[1] = "s3:" /\ af[2] = ""

\* open_notebook.storage.parse_s3_url: (bucket, key)
parse_s3_url(af) == <<af[3], SubSeq(af, 4, Len(af))>>

\* pathlib.Path(p).parent
Parent(p) == SubSeq(p, 1, Len(p) - 1)

\* open_notebook.storage.delete_object(key) when it succeeds
delete_object(e, key) == [e EXCEPT !.s3 = @ \ {key}]

\* mutant: the whole directory of the file is emptied
Unlink_Tree(e, p) == [e EXCEPT !.files = {f \in @ : Parent(f) # Parent(p)}]

\* Path.unlink() when it succeeds
Unlink(e, p) == [e EXCEPT !.files = @ \ {p}]

\* mutant: the directory is removed whatever it still holds
DirEmpty_Always(e, d) == TRUE

\* Path.rmdir(): removes an empty directory, OSError otherwise
DirEmpty(e, d) ==
    /\ \A f \in e.files : Parent(f) # d
    /\ \A x \in e.dirs : Parent(x) # d
Rmdir(e, d) == [e EXCEPT !.dirs = @ \ {d}]

----------------------------------------------------------------------------
(* Store queries issued by AdminService (repo_query statements) *)

\* mutant: the existence check lost its WHERE clause
SelectUser_NoWhere(d, ref) == d.user

\* SELECT id FROM user WHERE id = $user_id
SelectUser(d, ref) == {r \in d.user : r.id = ref}

\* mutant: the episodes of every user are enumerated
SelectEpisodes_AllOwners(d, owner) ==
    {[id |-> r.id, audio_file |-> r.audio_file] : r \in d.episode}

\* SELECT id, audio_file FROM episode WHERE owner = $owner
SelectEpisodes(d, owner) ==
    {[id |-> r.id, audio_file |-> r.audio_file] : r \in {x \in d.episode : x.owner = owner}}

\* _collect_ids: SELECT id FROM <table> WHERE owner = $owner
CollectIds(rows, owner) == {r.id : r \in {x \in rows : x.owner = owner}}

\* DELETE FROM source_embedding WHERE source IN $ids
DeleteEmbeddings(d, ids) ==
    [d EXCEPT !.source_embedding = {r \in @ : r.source \notin ids}]

\* DELETE FROM source_insight WHERE source IN $ids
DeleteInsights(d, ids) ==
    [d EXCEPT !.source_insight = {r \in @ : r.source \notin ids}]

\* DELETE FROM reference WHERE in IN $ids
DeleteReferenceIn(d, ids) ==
    [d EXCEPT !.reference = {r \in @ : r.in \notin ids}]

\* DELETE FROM artifact WHERE in IN $ids
DeleteArtifactIn(d, ids) ==
    [d EXCEPT !.artifact = {r \in @ : r.in \notin ids}]

\* mutant: the filter names the wrong endpoint of the edge
DeleteReferenceOut_WrongField(d, ids) ==
    [d EXCEPT !.reference = {r \in @ : r.in \notin ids}]

\* DELETE FROM reference WHERE out IN $ids
DeleteReferenceOut(d, ids) ==
    [d EXCEPT !.reference = {r \in @ : r.out \notin ids}]

\* DELETE FROM artifact WHERE out IN $ids
DeleteArtifactOut(d, ids) ==
    [d EXCEPT !.artifact = {r \in @ : r.out \notin ids}]

\* DELETE FROM <table> WHERE owner = $owner
DeleteByOwner(rows, owner) == {r \in rows : r.owner # owner}

\* mutant: the last statement also removes the account of the owner
DeleteEpisodes_AndUser(d, owner) ==
    [d EXCEPT !.episode = {r \in @ : r.owner # owner},
              !.user = {r \in @ : r.id # owner}]

\* DELETE FROM episode WHERE owner = $owner
DeleteEpisodes(d, owner) == [d EXCEPT !.episode = DeleteByOwner(@, owner)]

\* DELETE FROM user_provider_secret WHERE user = $owner
DeleteSecrets(rows, owner) == {r \in rows : r.user # owner}

----------------------------------------------------------------------------
(* clear_user_data as a sequence of statements *)

\* mutant: the assets are reaped after the cascade
Program_ReapLast ==
    << "check_user",
       "collect_notebook", "collect_source", "collect_note",
       "del_embedding", "del_insight", "del_ref_in",
       "del_art_in",
       "del_ref_out", "del_art_out",
       "del_notebook", "del_note", "del_source",
       "del_secret", "del_chat", "del_episode_profile", "del_speaker_profile",
       "del_episode", "reap_select", "reap_loop" >>

\* mutant: the primary collections are deleted before the edges that refer to them
Program_PrimariesFirst ==
    << "check_user", "reap_select", "reap_loop",
       "collect_notebook", "collect_source", "collect_note",
       "del_notebook", "del_note", "del_source",
       "del_embedding", "del_insight", "del_ref_in",
       "del_art_in",
       "del_ref_out", "del_art_out",
       "del_secret", "del_chat", "del_episode_profile", "del_speaker_profile",
       "del_episode" >>

\* mutant: the sources are deleted before their embeddings and insights
Program_SourcesBeforeDerived ==
    << "check_user", "reap_select", "reap_loop",
       "collect_notebook", "collect_source", "collect_note",
       "del_source",
       "del_embedding", "del_insight", "del_ref_in",
       "del_art_in",
       "del_ref_out", "del_art_out",
       "del_notebook", "del_note",
       "del_secret", "del_chat", "del_episode_profile", "del_speaker_profile",
       "del_episode" >>

\* the statements of clear_user_data and _delete_episode_assets, in code order
Program ==
    << "check_user", "reap_select", "reap_loop",
       "collect_notebook", "collect_source", "collect_note",
       "del_embedding", "del_insight", "del_ref_in",
       "del_art_in",
       "del_ref_out", "del_art_out",
       "del_notebook", "del_note", "del_source",
       "del_secret", "del_chat", "del_episode_profile", "del_speaker_profile",
       "del_episode" >>

\* the position of each statement in the program
IndexOf ==
    [step \in {Program[i] : i \in 1..Len(Program)} |->
        CHOOSE i \in 1..Len(Program) : Program[i] = step]

Index(step) == IndexOf[step]

CollectSteps == {"collect_notebook", "collect_source", "collect_note"}

DeleteSteps ==
    { "del_embedding", "del_insight", "del_ref_in", "del_art_in", "del_ref_out",
      "del_art_out", "del_notebook", "del_note", "del_source", "del_secret",
      "del_chat", "del_episode_profile", "del_speaker_profile", "del_episode" }

\* statements that await repo_query: suspension points where a query can fail
QuerySteps == {"check_user", "reap_select"} \cup CollectSteps \cup DeleteSteps

\* mutant: the DELETEs filtered by an id set are issued for an empty set too
Guard_NoIdSetChecks(step, cl) == step = "reap_loop" => cl.episodes # <<>>

\* the conditions under which a statement is reached:
\* the for loop body, `if source_ids:`, `if note_ids:`, `if notebook_ids:`
Guard(step, cl) ==
    CASE step = "reap_loop" -> cl.episodes # <<>>
      [] step \in {"del_embedding", "del_insight", "del_ref_in"} -> cl.source_ids # {}
      [] step = "del_art_in" -> cl.note_ids # {}
      [] step \in {"del_ref_out", "del_art_out"} -> cl.notebook_ids # {}
      [] OTHER -> TRUE

\* the statement executed after `step`, "return" after the last one
NextPc(step, cl) ==
    LET J == {j \in (Index(step) + 1)..Len(Program) : Guard(Program[j], cl)}
    IN  IF J = {} THEN "return"
        ELSE Program[CHOOSE j \in J : \A k \in J : j <= k]

\* the effect of one DELETE statement on the store
Effect(step, d, cl) ==
    CASE step = "del_embedding" -> DeleteEmbeddings(d, cl.source_ids)
      [] step = "del_insight" -> DeleteInsights(d, cl.source_ids)
      [] step = "del_ref_in" -> DeleteReferenceIn(d, cl.source_ids)
      [] step = "del_art_in" -> DeleteArtifactIn(d, cl.note_ids)
      [] step = "del_ref_out" -> DeleteReferenceOut(d, cl.notebook_ids)
      [] step = "del_art_out" -> DeleteArtifactOut(d, cl.notebook_ids)
      [] step = "del_notebook" -> [d EXCEPT !.notebook = DeleteByOwner(@, cl.owner_ref)]
      [] step = "del_note" -> [d EXCEPT !.note = DeleteByOwner(@, cl.owner_ref)]
      [] step = "del_source" -> [d EXCEPT !.source = DeleteByOwner(@, cl.owner_ref)]
      [] step = "del_secret" ->
            [d EXCEPT !.user_provider_secret = DeleteSecrets(@, cl.owner_ref)]
      [] step = "del_chat" -> [d EXCEPT !.chat_session = DeleteByOwner(@, cl.owner_ref)]
      [] step = "del_episode_profile" ->
            [d EXCEPT !.episode_profile = DeleteByOwner(@, cl.owner_ref)]
      [] step = "del_speaker_profile" ->
            [d EXCEPT !.speaker_profile = DeleteByOwner(@, cl.owner_ref)]
      [] step = "del_episode" -> DeleteEpisodes(d, cl.owner_ref)
      [] OTHER -> d

----------------------------------------------------------------------------
(* The request: router clear_user_data -> AdminService.clear_user_data *)

Slots == {1}

\* the slots of the requests that may run concurrently
AllSlots == {1, 2}

\* current_user.id of the administrator sending the request (User.normalize_id)
CallerIds == {StrU2}

\* the {user_id} path parameter
RequestIds == {StrU1, StrU2, StrGhost}

IdleCall ==
    [ pc |-> "idle", caller |-> <<>>, user_id |-> <<>>, owner_ref |-> RID("", ""),
      episodes |-> <<>>, notebook_ids |-> {}, source_ids |-> {}, note_ids |-> {},
      status |-> 0, failedAt |-> "", localFailed |-> FALSE, faulted |-> FALSE,
      s3Failed |-> FALSE, prev0 |-> <<>>,
      nreap |-> 0, ndel |-> 0, nasset |-> 0, ops |-> EmptyBag,
      start |-> [db |-> <<>>, ext |-> <<>>] ]

\* the orders in which a SELECT without ORDER BY may return its rows
Orders(S) ==
    {q \in [1..Cardinality(S) -> S] : \A i, j \in 1..Cardinality(S) : q[i] = q[j] => i = j}

\* the response of the router: 200, or the HTTPException / unhandled error
Return(cl, status) == [cl EXCEPT !.pc = "done", !.status = status]

\* an exception leaving clear_user_data at the current statement
Raise(cl, status) == [cl EXCEPT !.pc = "done", !.status = status, !.failedAt = cl.pc]

\* fall through to the next statement; the router answers 200 after the last
Advance(cl) ==
    LET n == NextPc(cl.pc, cl)
    IN  IF n = "return" THEN Return(cl, 200) ELSE [cl EXCEPT !.pc = n]

\* mutant: the failed statement is skipped and the cascade goes on
OnQueryError_Continue(cl) ==
    LET n == NextPc(cl.pc, cl)
    IN  IF n = "return" THEN [cl EXCEPT !.pc = "done", !.status = 200]
        ELSE [cl EXCEPT !.pc = n]

\* a store query that raises does not return: the exception leaves the call
OnQueryError(cl) == Raise(cl, 500)

\* the user whose clear the request completed, <<>> when it completed none
Outcome(cl) == IF cl.status = 200 THEN cl.user_id ELSE <<>>

\* bookkeeping shared by all steps of slot c
Commit(c, ncl) ==
    /\ call' = [call EXCEPT ![c] = ncl]
    /\ prev' = IF ncl.pc = "done" THEN Outcome(ncl) ELSE prev
    /\ UNCHANGED <<orig, link, script, aux>>

FaultIn(ev, kind) ==
    [ev EXCEPT !.n = @ + 1,
               !.failed = @ \/ kind = "fatal",
               !.swallowed = @ \/ kind = "swallowed"]

Fault(kind) ==
    /\ ever.n < MaxFaults
    /\ ever' = FaultIn(ever, kind)

\* mutant: the router has no self-protection check
IsSelf_Never(caller, uid) == FALSE

\* if current_user.id == user_id: the two strings are compared as they are
IsSelf(caller, uid) == caller = uid

\* router: self-protection check, then admin_service.clear_user_data(user_id);
\* service: owner_ref = ensure_record_id(user_id), whose error the router's
\* `except ValueError` turns into 404
StartWith(c, callers, ids) ==
    /\ ncalls < MaxCalls
    /\ call[c].pc \in {"idle", "done"}
    /\ ncalls' = ncalls + 1
    /\ \E caller \in callers, uid \in ids :
        LET cl == [IdleCall EXCEPT !.caller = caller, !.user_id = uid,
                                   !.prev0 = prev,
                                   !.start = [db |-> db, ext |-> ext]]
        IN  IF IsSelf(caller, uid)
            THEN Commit(c, Return(cl, 400))
            ELSE IF ensure_record_id(uid) = InvalidIdentifier
            THEN Commit(c, Raise([cl EXCEPT !.pc = "ensure_record_id"], 404))
            ELSE Commit(c, [cl EXCEPT !.pc = "check_user",
                                      !.owner_ref = ensure_record_id(uid)])
    /\ UNCHANGED <<db, ext, ever>>

Start(c) == StartWith(c, CallerIds, RequestIds)

\* exists = SELECT id FROM user ...; if not exists: raise ValueError (router: 404)
CheckUser(c) ==
    LET cl == call[c]
    IN  /\ cl.pc = "check_user"
        /\ IF SelectUser(db, cl.owner_ref) = {}
           THEN Commit(c, Raise(cl, 404))
           ELSE Commit(c, Advance(cl))
        /\ UNCHANGED <<db, ext, ever, ncalls>>

\* _delete_episode_assets: episodes = SELECT id, audio_file FROM episode ...
ReapSelect(c) ==
    LET cl == call[c]
    IN  /\ cl.pc = "reap_select"
        /\ \E order \in Orders(SelectEpisodes(db, cl.owner_ref)) :
              Commit(c, Advance([cl EXCEPT !.episodes = order, !.nreap = @ + 1]))
        /\ UNCHANGED <<db, ext, ever, ncalls>>

\* mutant: the error of delete_object is caught and the loop goes on
OnDeleteObjectError_Swallowed(e) == [ext |-> e, raised |-> FALSE, nops |-> 1]

\* delete_object(key) is called outside any try block: its error leaves the loop
OnDeleteObjectError(e) == [ext |-> e, raised |-> TRUE, nops |-> 1]

\* mutant: path.unlink() is called outside the try block
CatchesUnlinkError_Missing == FALSE

\* try: path.unlink() / except Exception: logger.warning(...)
CatchesUnlinkError == TRUE

\* try: parent.rmdir() / except OSError: pass
CatchesRmdirError == TRUE

\* mutant: the whole bucket/key path is handed to delete_object
ObjectKey_WithBucket(af) == SubSeq(af, 3, Len(af))

\* bucket, key = parse_s3_url(audio_file): the key, the bucket is dropped
ObjectKey(af) == parse_s3_url(af)[2]

\* the loop body of _delete_episode_assets for one locator; `fault` is the
\* operation that fails in this iteration ("none", "s3", "unlink", "rmdir")
ReapOne(e, af, fault) ==
    IF af = NoAudio
    THEN [ext |-> e, raised |-> FALSE, nops |-> 0]
    ELSE IF IsS3Url(af)
    THEN LET key == ObjectKey(af)
         IN  IF key = <<>>
             THEN [ext |-> e, raised |-> FALSE, nops |-> 0]
             ELSE IF fault = "s3"
             THEN OnDeleteObjectError(e)
             ELSE [ext |-> delete_object(e, key), raised |-> FALSE, nops |-> 1]
    ELSE LET hasFile == af \in e.files
             unlinkFails == hasFile /\ fault = "unlink"
             e1 == IF hasFile /\ ~unlinkFails THEN Unlink(e, af) ELSE e
             parent == Parent(af)
             hasDir == parent \in e1.dirs
             rmdirFails == hasDir /\ (fault = "rmdir" \/ ~DirEmpty(e1, parent))
             e2 == IF hasDir /\ ~rmdirFails THEN Rmdir(e1, parent) ELSE e1
         IN  IF unlinkFails /\ ~CatchesUnlinkError
             THEN [ext |-> e, raised |-> TRUE, nops |-> 1]
             ELSE IF rmdirFails /\ ~CatchesRmdirError
             THEN [ext |-> e1, raised |-> TRUE, nops |-> 1 + (IF hasFile THEN 1 ELSE 0)]
             ELSE [ext |-> e2, raised |-> FALSE,
                   nops |-> (IF hasFile THEN 1 ELSE 0) + (IF hasDir THEN 1 ELSE 0)]

\* the faults that can strike the loop body for this locator
ReapFaults(e, af) ==
    IF af = NoAudio THEN {}
    ELSE IF IsS3Url(af)
    THEN (IF ObjectKey(af) # <<>> THEN {"s3"} ELSE {})
    ELSE (IF af \in e.files THEN {"unlink"} ELSE {})
         \cup (IF Parent(af) \in e.dirs /\ DirEmpty(Unlink(e, af), Parent(af))
               THEN {"rmdir"} ELSE {})

\* the storage and filesystem calls the loop body issues for one locator
ReapOps(e, af) ==
    IF af = NoAudio THEN {}
    ELSE IF IsS3Url(af)
    THEN (IF ObjectKey(af) # <<>>
          THEN {[op |-> "delete_object", arg |-> ObjectKey(af)]} ELSE {})
    ELSE (IF af \in e.files THEN {[op |-> "unlink", arg |-> af]} ELSE {})
         \cup (IF Parent(af) \in e.dirs
               THEN {[op |-> "rmdir", arg |-> Parent(af)]} ELSE {})

\* the calls of one iteration, tagged with the episode they were issued for
OpsFor(ep, e) ==
    SetToBag({[ep |-> ep.id, op |-> o.op, arg |-> o.arg] : o \in ReapOps(e, ep.audio_file)})

\* one iteration of `for episode in episodes:`
ReapEpisode(c) ==
    LET cl == call[c]
        af == Head(cl.episodes).audio_file
        rest == Tail(cl.episodes)
    IN  /\ cl.pc = "reap_loop"
        /\ \E fault \in {"none"} \cup ReapFaults(ext, af) :
            LET r == ReapOne(ext, af, fault)
                cl1 == [cl EXCEPT !.episodes = rest, !.nasset = @ + r.nops,
                                  !.ops = @ (+) OpsFor(Head(cl.episodes), ext),
                                  !.localFailed = @ \/ (fault \in {"unlink", "rmdir"}),
                                  !.s3Failed = @ \/ fault = "s3"]
                ev == IF fault = "none" THEN ever
                      ELSE FaultIn(ever, IF r.raised THEN "fatal" ELSE "swallowed")
            IN  /\ fault # "none" => ever.n < MaxFaults
                /\ ever' = [ev EXCEPT !.reaped =
                                @ \cup (IF r.nops > 0 THEN {cl.owner_ref} ELSE {})]
                /\ ext' = r.ext
                /\ IF r.raised THEN Commit(c, Raise(cl1, 500))
                   ELSE IF rest # <<>> THEN Commit(c, cl1)
                   ELSE Commit(c, Advance(cl1))
        /\ UNCHANGED <<db, ncalls>>

\* notebook_ids / source_ids / note_ids = await self._collect_ids(table, owner_ref)
Collect(c) ==
    LET cl == call[c]
    IN  /\ cl.pc \in CollectSteps
        /\ Commit(c, Advance(
             CASE cl.pc = "collect_notebook" ->
                    [cl EXCEPT !.notebook_ids = CollectIds(db.notebook, cl.owner_ref)]
               [] cl.pc = "collect_source" ->
                    [cl EXCEPT !.source_ids = CollectIds(db.source, cl.owner_ref)]
               [] cl.pc = "collect_note" ->
                    [cl EXCEPT !.note_ids = CollectIds(db.note, cl.owner_ref)]))
        /\ UNCHANGED <<db, ext, ever, ncalls>>

\* await repo_query("DELETE FROM ...")
Delete(c) ==
    LET cl == call[c]
    IN  /\ cl.pc \in DeleteSteps
        /\ db' = Effect(cl.pc, db, cl)
        /\ Commit(c, Advance([cl EXCEPT !.ndel = @ + 1]))
        /\ UNCHANGED <<ext, ever, ncalls>>

\* a repo_query that raises or is cancelled; a DELETE may or may not have been
\* applied by the store when the error reaches the caller
QueryFault(c) ==
    LET cl == call[c]
    IN  /\ cl.pc \in QuerySteps
        /\ Fault("fatal")
        /\ \E applied \in BOOLEAN :
              /\ applied => cl.pc \in DeleteSteps
              /\ db' = IF applied THEN Effect(cl.pc, db, cl) ELSE db
              /\ Commit(c, OnQueryError([cl EXCEPT
                    !.faulted = TRUE,
                    !.ndel = @ + (IF cl.pc \in DeleteSteps THEN 1 ELSE 0)]))
        /\ UNCHANGED <<ext, ncalls>>

\* no fault has happened and no asset has been reaped
NoFaultYet == [n |-> 0, failed |-> FALSE, swallowed |-> FALSE, reaped |-> {}]

\* no add_source_to_notebook request is in flight
IdleLink ==
    [ pc |-> "idle", user |-> <<>>, notebook_id |-> RID("", ""),
      source_id |-> RID("", ""), source |-> <<>>, existing |-> FALSE, status |-> 0 ]

\* the script has not been started
IdleScript == [ pc |-> "idle", first_user_id |-> RID("", ""), table |-> "", todo |-> <<>> ]

\* the tables whose rows carry an owner and that the admin summaries count
CountedTables == {"notebook", "source", "note", "episode"}

\* no admin read request is in flight
IdleAdm ==
    [ pc |-> "idle", op |-> "", user_id |-> <<>>, owner_ref |-> RID("", ""),
      users |-> <<>>, pending |-> {},
      counts |-> [tb \in CountedTables |-> 0],
      rows |-> [tb \in CountedTables |-> {}],
      summaries |-> <<>>, status |-> 0 ]

\* the environment variables of the model: two that providers map to and one
\* that no provider maps to
EnvVars == {"OPENAI_API_KEY", "GOOGLE_API_KEY", "OLLAMA_API_BASE"}

\* os.environ.get(name) is None: the variable is not set
Unset == "(unset)"

\* the tasks that may enter a user_provider_context
CtxSlots == {1, 2}

\* previous_values has no entry for the variable
NotSaved == "(not saved)"

\* no user_provider_context has been entered by the task
IdleCtx ==
    [ pc |-> "idle", user_id |-> <<>>, secrets |-> <<>>,
      previous_values |-> [v \in EnvVars |-> NotSaved], raised |-> FALSE ]

\* no health request is in flight; the store is at migration `current` and
\* the code ships migrations up to `latest`
IdleHealth(current, latest) ==
    [ pc |-> "idle", current |-> current, latest |-> latest,
      status |-> "", database |-> "", migrations |-> "",
      version |-> 0, status_code |-> 0 ]

\* no notebook route is in flight
IdleRoute ==
    [ pc |-> "idle", op |-> "", user |-> <<>>, notebook_id |-> RID("", ""),
      source_id |-> RID("", ""), notebook |-> <<>>, result |-> {}, status |-> 0,
      order_by |-> <<"updated", "desc">> ]

\* the tasks that send provider-secret requests
SecSlots == {1, 2}

\* no provider-secret request is running in the task
IdleSec ==
    [ pc |-> "idle", op |-> "", user |-> <<>>, provider |-> "", value |-> "",
      existing |-> <<>>, result |-> {}, status |-> 0 ]

\* no request is passing through the security dependencies
IdleAuth ==
    [ pc |-> "idle", route |-> "", token |-> <<>>, user |-> <<>>, status |-> 0 ]

\* the upload script has not been started
IdleUpl ==
    [ pc |-> "idle", episodes |-> <<>>, i |-> 0, storage_url |-> <<>>,
      uploaded_count |-> 0, skipped_count |-> 0, failed_count |-> 0 ]

\* scripts/set_admin.py has not been started
IdleSetAdmin ==
    [ pc |-> "idle", email |-> <<>>, is_admin |-> FALSE, user_id |-> RID("", "") ]

MoreIdle ==
    /\ setadm = IdleSetAdmin
    /\ sreq = [k \in SecSlots |-> IdleSec]
    /\ auth = IdleAuth
    /\ upl = IdleUpl

\* the requests outside the data lifecycle are idle
AuxIdle ==
    /\ adm = IdleAdm
    /\ env = [v \in EnvVars |-> Unset]
    /\ ctx = [k \in CtxSlots |-> IdleCtx]
    /\ health = IdleHealth(0, 0)
    /\ route = IdleRoute
    /\ MoreIdle

----------------------------------------------------------------------------
(* Initial stores *)

Row(id, owner) == [id |-> id, owner |-> owner]

\* an edge record: its own id and the two records it connects
EdgeRow(id, i, o) == [id |-> id, in |-> i, out |-> o]

\* the edge i -> o that the store holds initially
Edge(i, o) == EdgeRow(<<i.id, o.id, 0>>, i, o)

Derived(tb, srcs) == {[id |-> RID(tb, s.id), source |-> s] : s \in srcs}

Owned(tb, users) == {Row(RID(tb, u.id), u) : u \in users}

SecretsOf(users) == {[id |-> RID("user_provider_secret", u.id), user |-> u] : u \in users}

Key1 == parse_s3_url(S3Url1)[2]

FullExt == [files |-> {Local1, Local2, OtherFile}, dirs |-> {Dir1}, s3 |-> {Key1, OtherKey}]

MkDb(on, os, ot, eps, refs, arts, emb, ins, sec) ==
    [ user |-> {[id |-> u] : u \in Users},
      notebook |-> {Row(n, on[n]) : n \in NotebookIds},
      source |-> {Row(x, os[x]) : x \in SourceIds},
      note |-> {Row(t, ot[t]) : t \in NoteIds},
      episode |-> eps,
      reference |-> refs,
      artifact |-> arts,
      source_embedding |-> Derived("source_embedding", emb),
      source_insight |-> Derived("source_insight", ins),
      user_provider_secret |-> SecretsOf(sec),
      chat_session |-> Owned("chat_session", sec),
      episode_profile |-> Owned("episode_profile", sec),
      speaker_profile |-> Owned("speaker_profile", sec) ]

AllRefs == {Edge(x, n) : x \in SourceIds, n \in NotebookIds}

AllArts == {Edge(t, n) : t \in NoteIds, n \in NotebookIds}

E1 == RID("episode", "e1")
E2 == RID("episode", "e2")

EpRow(id, owner, af) == [id |-> id, owner |-> owner, audio_file |-> af]

\* ownership patterns: both entities of the first user, one each, both of the second
Split(ids, first) == [x \in ids |-> IF x = first THEN U1 ELSE U2]

OwnerPatterns(ids, first) ==
    {[x \in ids |-> U1], Split(ids, first), [x \in ids |-> U2]}

\* no edge, any single edge, or every edge
EdgeChoices(all) == {{}, all} \cup {{e} : e \in all}

\* stores with every ownership pattern of the graph and every kind of edge
GraphStores ==
    { [db |-> MkDb(on, os, ot, {EpRow(E1, U1, S3Url1), EpRow(E2, U1, Local1)},
                   refs, arts, emb, emb, Users),
       ext |-> FullExt] :
        on \in OwnerPatterns(NotebookIds, RID("notebook", "n1")),
        os \in OwnerPatterns(SourceIds, RID("source", "s1")),
        ot \in [NoteIds -> Users],
        refs \in EdgeChoices(AllRefs), arts \in {{}, AllArts},
        emb \in {{}, SourceIds} }

\* what an episode row can hold: the owner and the locator
EpConfigs ==
    << [owner |-> U1, af |-> NoAudio], [owner |-> U1, af |-> S3Url1],
       [owner |-> U1, af |-> S3NoKey], [owner |-> U1, af |-> Local1],
       [owner |-> U1, af |-> Local2], [owner |-> U2, af |-> S3Url1],
       [owner |-> U2, af |-> Local1] >>

\* files present: none, the episodes' files, with or without a foreign file
FileChoices == {{}, {Local1, Local2}, {Local1, Local2, OtherFile}, {Local1, OtherFile}}

\* stores with every pattern of episodes, locators and local files
AssetStores ==
    { [db |-> MkDb([n \in NotebookIds |-> U1], [x \in SourceIds |-> U1],
                   [t \in NoteIds |-> U1],
                   {EpRow(E1, EpConfigs[i].owner, EpConfigs[i].af),
                    EpRow(E2, EpConfigs[j].owner, EpConfigs[j].af)},
                   AllRefs, AllArts, SourceIds, SourceIds, Users),
       ext |-> [files |-> fs, dirs |-> ds, s3 |-> {Key1, OtherKey}]] :
        i \in 1..Len(EpConfigs), j \in 1..Len(EpConfigs),
        fs \in FileChoices, ds \in SUBSET {Dir1} }

\* stores in which the first user owns no notebook, source, note or episode,
\* with or without rows of the secondary collections
EmptyTenantStores ==
    { [db |-> MkDb([n \in NotebookIds |-> U2], [x \in SourceIds |-> U2],
                   [t \in NoteIds |-> U2], eps,
                   AllRefs, AllArts, SourceIds, SourceIds, sec),
       ext |-> FullExt] :
        eps \in {{}, {EpRow(E1, U2, S3Url1), EpRow(E2, U2, Local1)}},
        sec \in {{U2}, Users} }

InitStores ==
    GraphStores \cup
    {s \in AssetStores : (s.ext.files # {} => s.ext.dirs # {})} \cup
    EmptyTenantStores

Init ==
    /\ \E s \in InitStores : db = s.db /\ ext = s.ext /\ orig = s
    /\ call = [c \in AllSlots |-> IdleCall]
    /\ ncalls = 0
    /\ prev = <<>>
    /\ ever = NoFaultYet
    /\ link = IdleLink
    /\ script = IdleScript
    /\ AuxIdle

Next ==
    \E c \in Slots :
        \/ Start(c)
        \/ CheckUser(c)
        \/ ReapSelect(c)
        \/ ReapEpisode(c)
        \/ Collect(c)
        \/ Delete(c)
        \/ QueryFault(c)

Spec == Init /\ [][Next]_vars

----------------------------------------------------------------------------
(* Vocabulary of the properties *)

T(c) == call[c].owner_ref

Finished(c) == call[c].pc = "done"

Succeeded(c) == Finished(c) /\ call[c].status = 200

\* the ids of the notebooks, sources, notes and episodes `owner` owns in store d
OwnedIds(d, owner) ==
    CollectIds(d.notebook, owner) \cup CollectIds(d.source, owner)
        \cup CollectIds(d.note, owner) \cup CollectIds(d.episode, owner)

OwnerTables ==
    {"notebook", "source", "note", "episode",
     "chat_session", "episode_profile", "speaker_profile"}

\* store d holds no row of `owner` and no record referring to one of `owned`
NoDataOf(d, owner, owned) ==
    /\ \A tb \in OwnerTables : \A r \in d[tb] : r.owner # owner
    /\ \A r \in d.user_provider_secret : r.user # owner
    /\ \A r \in d.reference \cup d.artifact : r.in \notin owned /\ r.out \notin owned
    /\ \A r \in d.source_embedding \cup d.source_insight : r.source \notin owned

\* every edge and derived record of store d refers to rows that exist
NoDangling(d) ==
    /\ \A r \in d.reference :
          r.in \in {x.id : x \in d.source} /\ r.out \in {x.id : x \in d.notebook}
    /\ \A r \in d.artifact :
          r.in \in {x.id : x \in d.note} /\ r.out \in {x.id : x \in d.notebook}
    /\ \A r \in d.source_embedding \cup d.source_insight :
          r.source \in {x.id : x \in d.source}

\* the store and the assets a single clear of `owner` without any failure leaves
Cleared(s, owner) ==
    LET owned == OwnedIds(s.db, owner)
        locs == {r.audio_file : r \in {x \in s.db.episode : x.owner = owner}}
        keys == {parse_s3_url(af)[2] : af \in {x \in locs : IsS3Url(x)}}
        paths == {af \in locs : af # NoAudio /\ ~IsS3Url(af)}
        files == s.ext.files \ paths
        gone == {d \in {Parent(pth) : pth \in paths} : \A f \in files : Parent(f) # d}
    IN  [db |-> [tb \in DOMAIN s.db |->
                   CASE tb \in OwnerTables -> {r \in s.db[tb] : r.owner # owner}
                     [] tb = "user_provider_secret" -> {r \in s.db[tb] : r.user # owner}
                     [] tb \in {"reference", "artifact"} ->
                          {r \in s.db[tb] : r.in \notin owned /\ r.out \notin owned}
                     [] tb \in {"source_embedding", "source_insight"} ->
                          {r \in s.db[tb] : r.source \notin owned}
                     [] OTHER -> s.db[tb]],
         ext |-> [files |-> files, dirs |-> s.ext.dirs \ gone, s3 |-> s.ext.s3 \ keys]]

Now == [db |-> db, ext |-> ext]

----------------------------------------------------------------------------
(* Properties *)

\* C1: after a clear of T that returned without failure, no notebook, source,
\* note or episode of T remains, no reference, artifact, source_embedding or
\* source_insight record refers to an entity T owned when the call started, no
\* secondary row of T remains, and the user row of T still exists.
C1_ClearRemovesAllOwnedData ==
    \A c \in Slots :
        Succeeded(c) =>
            /\ NoDataOf(db, T(c), OwnedIds(call[c].start.db, T(c)))
            /\ [id |-> T(c)] \in db.user

\* a finished clear of a user who owned a notebook that a source of another
\* user referred to, and a source with a derived record
C1_Witness ==
    \E c \in Slots :
        /\ Succeeded(c)
        /\ \E r \in call[c].start.db.reference :
              /\ r.out \in CollectIds(call[c].start.db.notebook, T(c))
              /\ r.in \notin CollectIds(call[c].start.db.source, T(c))
        /\ \E r \in call[c].start.db.source_embedding :
              r.source \in CollectIds(call[c].start.db.source, T(c))
        /\ \E r \in call[c].start.db.artifact :
              r.in \in CollectIds(call[c].start.db.note, T(c))

\* C2: in every state during and after a clear, also one that failed or was
\* cancelled at any statement, every reference, artifact, source_embedding and
\* source_insight record refers to rows that still exist.
C2_NoDanglingEdge == NoDangling(db)

\* a clear that failed between the deletion of the notebooks and the deletion
\* of the sources, for a user whose notebooks and sources had edges
C2_Witness ==
    \E c \in Slots :
        /\ Finished(c) /\ call[c].status = 500
        /\ call[c].failedAt \in {"del_note", "del_source"}
        /\ CollectIds(db.notebook, T(c)) = {}
        /\ CollectIds(db.source, T(c)) # {}
        /\ \E r \in call[c].start.db.reference :
              r.out \in CollectIds(call[c].start.db.notebook, T(c))
        /\ \E r \in call[c].start.db.reference :
              r.in \in CollectIds(call[c].start.db.source, T(c))

\* C3: a clear of T that directly follows a clear of T that returned without
\* failure changes neither the store nor the assets at any of its statements,
\* and it ends without error unless a fault is injected into it.
C3_SecondClearIsNoOp ==
    \A c \in Slots :
        (call[c].pc # "idle" /\ call[c].prev0 = call[c].user_id) =>
            /\ Now = call[c].start
            /\ (Finished(c) /\ ~call[c].faulted) => call[c].status = 200

\* a second clear in succession has finished, and the first one had deleted data
C3_Witness ==
    \E c \in Slots :
        /\ Succeeded(c) /\ call[c].prev0 = call[c].user_id
        /\ call[c].ndel > 0
        /\ orig.db # db /\ orig.ext # ext

\* C4: when a clear of T failed or was cancelled at some statement, a following
\* clear of T that returns without failure leaves the store and the assets as a
\* single clear without failure leaves them from the initial state
\* (no local file operation having failed).
C4_RetryCompletes ==
    \A c \in Slots :
        (Succeeded(c) /\ ~ever.swallowed) => Now = Cleared(orig, T(c))

\* a clear finished after an earlier one had failed part-way through the deletes
C4_Witness ==
    \E c \in Slots :
        /\ Succeeded(c) /\ ever.failed /\ ~ever.swallowed
        /\ call[c].start.db # orig.db
        /\ db # call[c].start.db

\* C5: a request for an identifier that resolves to no user row ends at the
\* existence check with 404 (ValueError), having enumerated no episode, touched
\* no asset and issued no delete: store and assets are as before the request.
C5_UnknownUserNoEffect ==
    \A c \in Slots :
        (/\ call[c].pc # "idle"
         /\ call[c].caller # call[c].user_id
         /\ [id |-> T(c)] \notin call[c].start.db.user) =>
            /\ call[c].pc \in {"check_user", "done"}
            /\ Now = call[c].start
            /\ call[c].nreap = 0 /\ call[c].ndel = 0 /\ call[c].nasset = 0
            /\ Finished(c) =>
                  /\ call[c].failedAt = "check_user"
                  /\ call[c].status = 404 \/ call[c].faulted

\* a request for an unknown user was answered 404 while other users own data
C5_Witness ==
    \E c \in Slots :
        /\ Finished(c) /\ call[c].status = 404
        /\ call[c].user_id = StrGhost
        /\ db.episode # {} /\ db.notebook # {}

\* the table a DELETE statement works on
TableOf(step) ==
    CASE step = "del_embedding" -> "source_embedding"
      [] step = "del_insight" -> "source_insight"
      [] step \in {"del_ref_in", "del_ref_out"} -> "reference"
      [] step \in {"del_art_in", "del_art_out"} -> "artifact"
      [] step = "del_notebook" -> "notebook"
      [] step = "del_note" -> "note"
      [] step = "del_source" -> "source"
      [] step = "del_secret" -> "user_provider_secret"
      [] step = "del_chat" -> "chat_session"
      [] step = "del_episode_profile" -> "episode_profile"
      [] step = "del_speaker_profile" -> "speaker_profile"
      [] step = "del_episode" -> "episode"

\* what a DELETE statement of call cl leaves behind in store d
StepDone(step, d, cl) ==
    CASE step \in {"del_embedding", "del_insight"} ->
            \A r \in d[TableOf(step)] : r.source \notin cl.source_ids
      [] step = "del_ref_in" -> \A r \in d.reference : r.in \notin cl.source_ids
      [] step = "del_art_in" -> \A r \in d.artifact : r.in \notin cl.note_ids
      [] step \in {"del_ref_out", "del_art_out"} ->
            \A r \in d[TableOf(step)] : r.out \notin cl.notebook_ids
      [] step = "del_secret" -> \A r \in d.user_provider_secret : r.user # cl.owner_ref
      [] OTHER -> \A r \in d[TableOf(step)] : r.owner # cl.owner_ref

\* the tables of the store
Tables ==
    {"user", "notebook", "source", "note", "episode", "reference", "artifact",
     "source_embedding", "source_insight", "user_provider_secret",
     "chat_session", "episode_profile", "speaker_profile"}

\* the DELETE statements that work on each table
StepsOn == [tb \in Tables |-> {st \in DeleteSteps : TableOf(st) = tb}]

\* the statements of the cascade placed before / not after the failed one
Before(step, failed) == Index(step) < Index(failed)

\* C6: when a store query of a clear fails, the request ends there with the
\* error (500), every delete statement placed before the failed one has had
\* its effect, and every table that only later statements work on is as it was
\* when the request started.
C6_QueryFailureAbortsCascade ==
    \A c \in Slots :
        call[c].faulted =>
            /\ Finished(c) /\ call[c].status = 500
            /\ call[c].failedAt \in QuerySteps
            /\ \A st \in DeleteSteps :
                  (Before(st, call[c].failedAt) /\ Guard(st, call[c]))
                      => StepDone(st, db, call[c])
            /\ \A tb \in DOMAIN db :
                  (\A st \in StepsOn[tb] : Before(call[c].failedAt, st))
                      => db[tb] = call[c].start.db[tb]

\* a clear failed at the deletion of the notes: the edges and the notebooks of
\* the user are gone, the sources and the episodes are still there
C6_Witness ==
    \E c \in Slots :
        /\ call[c].faulted /\ call[c].failedAt = "del_note"
        /\ call[c].start.db.reference # db.reference
        /\ call[c].start.db.notebook # db.notebook
        /\ CollectIds(db.source, T(c)) # {}
        /\ CollectIds(db.episode, T(c)) # {}

\* C7: each clear enumerates the episodes exactly once, before it issues any
\* delete statement; every delete-object call and every file or directory
\* removal happens before the first delete statement, while all episode rows
\* of T are still in the store.
C7_ReaperRunsOnceAndFirst ==
    /\ [](\A c \in Slots :
            /\ call[c].nreap <= 1
            /\ (call[c].pc \in CollectSteps \cup DeleteSteps \/ Succeeded(c))
                  => call[c].nreap = 1)
    /\ [][\A c \in Slots :
            (call'[c].nreap > call[c].nreap \/ call'[c].nasset > call[c].nasset)
                => /\ call[c].ndel = 0
                   /\ {r \in db.episode : r.owner = T(c)}
                        = {r \in call[c].start.db.episode : r.owner = T(c)}]_vars

\* a clear that removed an object and a local file is now issuing its deletes
C7_Witness ==
    \E c \in Slots :
        /\ call[c].pc = "del_episode"
        /\ call[c].nasset >= 2 /\ call[c].ndel > 0
        /\ ext.s3 # call[c].start.ext.s3
        /\ ext.files # call[c].start.ext.files

\* C8: whatever happens while the assets of the episodes are deleted, a clear
\* of an existing user in which no store query failed has deleted the records
\* of the user when it ends.
C8_ReaperNeverFailsCascade ==
    \A c \in Slots :
        (/\ Finished(c)
         /\ call[c].caller # call[c].user_id
         /\ [id |-> T(c)] \in call[c].start.db.user
         /\ ~call[c].faulted) =>
            NoDataOf(db, T(c), OwnedIds(call[c].start.db, T(c)))

\* C9: an error raised by delete_object ends the request with that error (500)
\* at the reaper, before any delete statement; from then on the request
\* performs no asset operation, so the episodes enumerated after the failing
\* one are not attempted.
C9_StorageErrorPropagates ==
    /\ [](\A c \in Slots :
            call[c].s3Failed =>
                /\ Finished(c) /\ call[c].status = 500
                /\ call[c].failedAt = "reap_loop"
                /\ call[c].ndel = 0 /\ db = call[c].start.db)
    /\ [][\A c \in Slots :
            (call[c].s3Failed /\ ncalls' = ncalls)
                => (ext' = ext /\ call'[c].nasset = call[c].nasset)]_vars

\* delete_object failed while a later episode with a local file was pending:
\* the request is over and that file is still there
C9_Witness ==
    \E c \in Slots :
        /\ call[c].s3Failed /\ Finished(c)
        /\ call[c].episodes # <<>>
        /\ Head(call[c].episodes).audio_file \in ext.files

ProgressStep(c) ==
    CheckUser(c) \/ ReapSelect(c) \/ ReapEpisode(c) \/ Collect(c) \/ Delete(c)

\* C10: a clear in which an unlink or an rmdir failed, and nothing else, never
\* ends with an error: while it runs its next statement can be executed, and
\* when it ends it answers 200 with all records of the user deleted.
C10_LocalFailureNotFatal ==
    \A c \in Slots :
        (call[c].localFailed /\ ~call[c].faulted /\ ~call[c].s3Failed) =>
            /\ ~Finished(c) => ENABLED ProgressStep(c)
            /\ Finished(c) =>
                  /\ call[c].status = 200
                  /\ NoDataOf(db, T(c), OwnedIds(call[c].start.db, T(c)))

\* an unlink failed and the clear went on: the file is still there, the file
\* of another episode was removed and the request answered 200
C10_Witness ==
    \E c \in Slots :
        /\ Succeeded(c) /\ call[c].localFailed
        /\ \E f \in ext.files, g \in call[c].start.ext.files \ ext.files :
              /\ f # g
              /\ {f, g} \subseteq
                    {r.audio_file :
                        r \in {x \in call[c].start.db.episode : x.owner = T(c)}}

----------------------------------------------------------------------------
(* The asset reaper, call by call *)

\* the episode rows of T(c) when the request of slot c started
EpisodesAtStart(c) == {r \in call[c].start.db.episode : r.owner = T(c)}

\* _delete_episode_assets of slot c has run to its end
ReaperDone(c) ==
    /\ call[c].nreap = 1
    /\ call[c].pc \notin {"reap_select", "reap_loop"}
    /\ call[c].failedAt \notin {"reap_select", "reap_loop"}

\* the calls slot c has issued for episode id
OpsOf(c, id) == {o \in BagToSet(call[c].ops) : o.ep = id}

\* C11: for an episode of the cleared user whose audio_file is s3://bucket/key
\* the reaper issues exactly one delete_object call, with the key and without
\* the bucket, and no filesystem call; for an episode without audio_file (and
\* for an s3 URL without a key) it issues no call at all. No call is ever
\* issued twice.
C11_OneDeleteObjectPerS3Episode ==
    \A c \in Slots :
        /\ \A o \in BagToSet(call[c].ops) : CopiesIn(o, call[c].ops) = 1
        /\ ReaperDone(c) =>
              \A r \in EpisodesAtStart(c) :
                  LET af == r.audio_file
                      key == SubSeq(af, 4, Len(af))
                  IN  /\ (IsS3Url(af) /\ key # <<>>) =>
                            OpsOf(c, r.id) =
                                {[ep |-> r.id, op |-> "delete_object", arg |-> key]}
                      /\ (af = NoAudio \/ (IsS3Url(af) /\ key = <<>>)) =>
                            OpsOf(c, r.id) = {}

\* a finished clear of a user with an s3 episode and an episode without audio
\* file: one delete_object call with the key, and the object is gone
C11_Witness ==
    \E c \in Slots :
        /\ Succeeded(c)
        /\ \E r \in EpisodesAtStart(c) :
              /\ r.audio_file = S3Url1
              /\ [ep |-> r.id, op |-> "delete_object", arg |-> Key1] \in BagToSet(call[c].ops)
              /\ Key1 \in call[c].start.ext.s3 /\ Key1 \notin ext.s3

\* the local paths the episodes of T(c) pointed to when the request started
LocalPathsAtStart(c) ==
    {r.audio_file : r \in {x \in EpisodesAtStart(c) :
                              x.audio_file # NoAudio /\ ~IsS3Url(x.audio_file)}}

\* the entries of directory d in filesystem e, the files named in `gone`
\* left out
EntriesWithout(e, d, gone) ==
    {f \in e.files \ gone : Parent(f) = d} \cup {x \in e.dirs : Parent(x) = d}

\* C12 as stated: after every clear that answered 200, every local file an
\* episode of the cleared user pointed to does not exist; its parent
\* directory is gone when the file was in it and the files of the user's
\* episodes were its only entries, and stays otherwise; no other file and no
\* other directory is touched.
C12_AfterClearFileAndLastDirGone ==
    \A c \in Slots :
        Succeeded(c) =>
            LET s == call[c].start.ext
                locs == LocalPathsAtStart(c)
            IN  /\ \A p \in locs :
                      /\ p \notin ext.files
                      /\ Parent(p) \in s.dirs =>
                            (Parent(p) \notin ext.dirs <=>
                                /\ p \in s.files
                                /\ EntriesWithout(s, Parent(p), locs) = {})
                /\ ext.files \ locs = s.files \ locs
                /\ ext.dirs \subseteq s.dirs

\* C12 (amended): after a clear that answered 200, no file other than those
\* the user's episodes pointed to is removed, no directory other than a
\* parent of such a locator is removed, and a directory that holds another
\* entry stays. When no unlink and no rmdir failed in the clear, every
\* local file an episode of the user pointed to is gone, and the parent
\* directory of every such locator, whether its file existed or was already
\* missing, is gone exactly when it held nothing besides the files of the
\* user's episodes. A failed unlink is passed over and leaves the file.
C12_LocalFileAndEmptyDirRemoved ==
    \A c \in Slots :
        Succeeded(c) =>
            LET s == call[c].start.ext
                locs == LocalPathsAtStart(c)
            IN  /\ ext.files \subseteq s.files
                /\ ext.files \ locs = s.files \ locs
                /\ ext.dirs \subseteq s.dirs
                /\ \A d \in s.dirs \ ext.dirs : \E p \in locs : Parent(p) = d
                /\ \A d \in s.dirs : EntriesWithout(s, d, locs) # {} => d \in ext.dirs
                /\ ~call[c].localFailed =>
                      \A p \in locs :
                          /\ p \notin ext.files
                          /\ Parent(p) \in s.dirs =>
                                (Parent(p) \notin ext.dirs <=>
                                    EntriesWithout(s, Parent(p), locs) = {})

\* two episodes of the cleared user shared a directory and were its only
\* entries: both files and the directory are gone
C12_Witness ==
    \E c \in Slots :
        /\ Succeeded(c) /\ ~call[c].localFailed
        /\ LocalPathsAtStart(c) = {Local1, Local2}
        /\ call[c].start.ext.files = {Local1, Local2}
        /\ Dir1 \in call[c].start.ext.dirs
        /\ ext.files = {} /\ ext.dirs = {}

----------------------------------------------------------------------------
(* The cascade, statement by statement *)

\* the DELETE statements filtered by a collected id set
IdSetSteps ==
    {"del_embedding", "del_insight", "del_ref_in", "del_art_in",
     "del_ref_out", "del_art_out"}

\* the DELETE statements filtered by owner
ByOwnerSteps == DeleteSteps \ IdSetSteps

\* C13: a clear of an existing user who owns no row at all (no notebook,
\* source, note, episode and no row of a secondary collection) never touches
\* an asset, never reaches one of the DELETEs filtered by an id set, leaves
\* the store and the assets as they were, and, unless a query fails, answers
\* 200 after issuing the by-owner DELETEs and nothing else.
C13_EmptyTenantClearIsNoOp ==
    \A c \in Slots :
        ( /\ call[c].pc \notin {"idle"}
          /\ [id |-> T(c)] \in call[c].start.db.user
          /\ NoDataOf(call[c].start.db, T(c), {}) ) =>
            /\ Now = call[c].start
            /\ call[c].nasset = 0 /\ call[c].ops = EmptyBag
            /\ call[c].pc \notin IdSetSteps
            /\ call[c].ndel <= Cardinality(ByOwnerSteps)
            /\ (Finished(c) /\ ~call[c].faulted) =>
                  /\ call[c].status = 200
                  /\ call[c].ndel = Cardinality(ByOwnerSteps)

\* the clear of a user without any row has answered 200 in a store that holds
\* the rows, edges and assets of another user
C13_Witness ==
    \E c \in Slots :
        /\ Succeeded(c)
        /\ [id |-> T(c)] \in call[c].start.db.user
        /\ NoDataOf(call[c].start.db, T(c), {})
        /\ db.episode # {} /\ db.reference # {} /\ db.user_provider_secret # {}
        /\ call[c].ndel = Cardinality(ByOwnerSteps)

\* the DELETEs of the three primary collections
PrimarySteps == {"del_notebook", "del_note", "del_source"}

\* the DELETEs of the secondary collections and of the episode rows
SecondarySteps ==
    {"del_secret", "del_chat", "del_episode_profile", "del_speaker_profile",
     "del_episode"}

\* the phase of the cascade a statement belongs to
Phase(step) ==
    CASE step \in IdSetSteps -> 1
      [] step \in PrimarySteps -> 2
      [] step \in SecondarySteps -> 3
      [] OTHER -> 0

\* the ids slot c collected for the user it clears
CollectedIds(c) ==
    call[c].notebook_ids \cup call[c].source_ids \cup call[c].note_ids

\* C15: within one call the statements run one after the other in a fixed
\* order. When the DELETE of the sources is about to be issued, no embedding
\* and no insight of a source of the user is left; when the DELETE of the
\* notebooks, notes or sources is about to be issued, no reference and no
\* artifact edge on an entity of the user is left; when a secondary collection
\* or the episode rows are about to be deleted, the user has no notebook,
\* note or source left; and a call never goes back from a later phase
\* (id-set deletes, primaries, secondaries) to an earlier one.
C15_CascadeStepsOrdered ==
    /\ [](\A c \in Slots :
            /\ call[c].pc = "del_source" =>
                  \A r \in db.source_embedding \cup db.source_insight :
                      r.source \notin call[c].source_ids
            /\ call[c].pc \in PrimarySteps =>
                  \A r \in db.reference \cup db.artifact :
                      r.in \notin CollectedIds(c) /\ r.out \notin CollectedIds(c)
            /\ call[c].pc \in SecondarySteps =>
                  \A tb \in {"notebook", "note", "source"} :
                      \A r \in db[tb] : r.owner # T(c))
    /\ [][\A c \in Slots :
            (call[c].pc \in DeleteSteps /\ call'[c].pc \in DeleteSteps) =>
                /\ Phase(call'[c].pc) >= Phase(call[c].pc)
                /\ call'[c].pc # call[c].pc => call'[c].ndel = call[c].ndel + 1]_vars

\* the DELETE of the sources is about to be issued: the user's sources had
\* embeddings and reference edges, all of them are gone, the sources are not
C15_Witness ==
    \E c \in Slots :
        /\ call[c].pc = "del_source"
        /\ call[c].source_ids # {}
        /\ \E r \in call[c].start.db.source_embedding : r.source \in call[c].source_ids
        /\ \E r \in call[c].start.db.reference : r.in \in call[c].source_ids
        /\ \E r \in db.source : r.owner = T(c)

----------------------------------------------------------------------------
(* What a clear leaves alone *)

\* the locators of the episodes of `owner` in store d
LocatorsOf(d, owner) ==
    {r.audio_file : r \in {x \in d.episode : x.owner = owner /\ x.audio_file # NoAudio}}

\* the blob a locator denotes exists in e
BlobExists(e, af) ==
    IF IsS3Url(af) THEN SubSeq(af, 4, Len(af)) \in e.s3 ELSE af \in e.files

\* row r of table tb is a row of `owner`, or an edge or a derived record
\* that refers to one of `owned`
BelongsTo(tb, r, owner, owned) ==
    CASE tb \in OwnerTables -> r.owner = owner
      [] tb = "user_provider_secret" -> r.user = owner
      [] tb \in {"reference", "artifact"} -> r.in \in owned \/ r.out \in owned
      [] tb \in {"source_embedding", "source_insight"} -> r.source \in owned
      [] OTHER -> FALSE

\* C17: at every step of a clear of T, and in the state it leaves when it
\* completes or aborts, every row owned by another user (notebook, source,
\* note, episode, secondary collections), every user row, every edge and
\* derived record with no endpoint owned by T, and every blob that an episode
\* of another user (and no episode of T) points to, is as it was when the
\* call started: the store holds no row that was not there, and every row
\* that is gone was a row of T or referred to an entity of T.
C17_OtherTenantsUntouched ==
    \A c \in Slots :
        call[c].pc \notin {"idle"} =>
            LET s == call[c].start
                owned == OwnedIds(s.db, T(c))
            IN  /\ \A tb \in DOMAIN db :
                      /\ db[tb] \subseteq s.db[tb]
                      /\ \A r \in s.db[tb] \ db[tb] : BelongsTo(tb, r, T(c), owned)
                /\ db.user = s.db.user
                /\ \A u \in Users \ {T(c)} :
                      \A af \in LocatorsOf(s.db, u) \ LocatorsOf(s.db, T(c)) :
                          BlobExists(ext, af) <=> BlobExists(s.ext, af)

\* a clear of T has answered 200 and removed T's local file; the episode of
\* the other user, its object and the other user's rows are still there
C17_Witness ==
    \E c \in Slots :
        /\ Succeeded(c)
        /\ Local1 \in LocatorsOf(call[c].start.db, T(c))
        /\ Local1 \in call[c].start.ext.files /\ Local1 \notin ext.files
        /\ \E u \in Users \ {T(c)} :
              /\ S3Url1 \in LocatorsOf(db, u)
              /\ BlobExists(ext, S3Url1)
              /\ \E r \in db.user_provider_secret : r.user = u

----------------------------------------------------------------------------
(* Requests with every form of identifier, on stores whose locators all
   denote a blob that exists and that no other user's episode points to *)

\* the key of a user without its table: not a "table:key" string
StrKeyU1 == <<"u1">>
StrKeyU2 == <<"u2">>

\* the {user_id} path parameter, any string
AnyRequestIds == RequestIds \cup {StrKeyU1, StrKeyU2}

\* RecordID.to_string / str(RecordID): "table:key"
to_string(ref) == <<ref.tb, ref.id>>

\* every file lies in a directory, every locator denotes an existing blob,
\* and never one of two users
Intact(s) ==
    /\ \A f \in s.ext.files : Parent(f) \in s.ext.dirs
    /\ \A r \in s.db.episode :
          r.audio_file # NoAudio => BlobExists(s.ext, r.audio_file)
    /\ \A u \in Users, v \in Users :
          u # v => LocatorsOf(s.db, u) \cap LocatorsOf(s.db, v) = {}

IntactStores == {s \in AssetStores \cup EmptyTenantStores : Intact(s)}

InitIntact ==
    /\ \E s \in IntactStores : db = s.db /\ ext = s.ext /\ orig = s
    /\ call = [c \in AllSlots |-> IdleCall]
    /\ ncalls = 0
    /\ prev = <<>>
    /\ ever = NoFaultYet
    /\ link = IdleLink
    /\ script = IdleScript
    /\ AuxIdle

StartAny(c) == StartWith(c, CallerIds, AnyRequestIds)

NextIntact ==
    \E c \in Slots :
        \/ StartAny(c)
        \/ CheckUser(c)
        \/ ReapSelect(c)
        \/ ReapEpisode(c)
        \/ Collect(c)
        \/ Delete(c)
        \/ QueryFault(c)

SpecIntact == InitIntact /\ [][NextIntact]_vars

\* the identifier names the record of the caller: the caller's "table:key"
\* string, or the bare key of the caller's record
DenotesCaller(c) ==
    \/ ensure_record_id(call[c].user_id) = ensure_record_id(call[c].caller)
    \/ call[c].user_id = <<ensure_record_id(call[c].caller).id>>

\* C18: whenever the identifier sent to the clear endpoint names the record of
\* the calling administrator, as the "table:key" string of the caller's
\* reference or as the bare key, the request is rejected at once (400 or 404)
\* and the store and the assets are as they were when it arrived.
C18_CannotClearCaller ==
    \A c \in Slots :
        (call[c].pc \notin {"idle"} /\ DenotesCaller(c)) =>
            /\ Finished(c)
            /\ call[c].status \in {400, 404}
            /\ call[c].ndel = 0 /\ call[c].nasset = 0 /\ call[c].nreap = 0
            /\ Now = call[c].start

\* the caller, who owns rows and an episode with an existing object, sent its
\* own "table:key" identifier and was answered 400
C18_Witness ==
    \E c \in Slots :
        /\ Finished(c) /\ call[c].status = 400
        /\ call[c].user_id = to_string(ensure_record_id(call[c].caller))
        /\ \E r \in db.episode :
              /\ r.owner = ensure_record_id(call[c].caller)
              /\ r.audio_file # NoAudio /\ BlobExists(ext, r.audio_file)
        /\ \E r \in db.user_provider_secret : r.user = ensure_record_id(call[c].caller)

\* the episode rows whose locator denotes a blob that does not exist
RowsWithoutBlob ==
    {r \in db.episode : r.audio_file # NoAudio /\ ~BlobExists(ext, r.audio_file)}

\* C19 as claimed: in every reachable state each episode row with a non-empty
\* audio_file denotes a blob that exists.
C19_NoEpisodeRowOutlivesItsBlob == RowsWithoutBlob = {}

\* C19 as the code has it: an episode row with a non-empty audio_file denotes
\* a blob that exists unless the asset reaper of a clear of its owner has run:
\* the reaper removes the blobs first and the episode rows are deleted last,
\* so during that clear, and after it failed or was cancelled, the rows of the
\* cleared user (and only those) outlive their blobs.
C19_OnlyReapedUsersRowsOutliveBlobs ==
    \A r \in RowsWithoutBlob : r.owner \in ever.reaped

\* a clear failed at a query after the reaper had removed the object: the
\* episode row of the user is still there and points to nothing
C19_Witness ==
    \E c \in Slots :
        /\ Finished(c) /\ call[c].status = 500 /\ call[c].faulted
        /\ \E r \in RowsWithoutBlob :
              /\ r.owner = T(c)
              /\ BlobExists(call[c].start.ext, r.audio_file)
        /\ \E r \in db.episode :
              r.owner # T(c) /\ r.audio_file # NoAudio /\ BlobExists(ext, r.audio_file)

----------------------------------------------------------------------------
(* Two requests clearing the same user concurrently, without faults *)

\* the graph with every edge and derived record, owned by the first user
\* alone or split between the two users (edges across users), with an s3 and
\* a local episode; and a store with two local episodes sharing a directory
ConcStores ==
    {s \in GraphStores :
        /\ s.db.reference = AllRefs /\ s.db.artifact = AllArts
        /\ s.db.source_embedding # {}
        /\ \A r \in s.db.note : r.owner = U1
        /\ \/ \A r \in s.db.notebook \cup s.db.source : r.owner = U1
           \/ /\ \E r \in s.db.notebook : r.owner = U2
              /\ \E r \in s.db.notebook : r.owner = U1
              /\ \E r \in s.db.source : r.owner = U2
              /\ \E r \in s.db.source : r.owner = U1}
    \cup {s \in IntactStores :
            /\ {r.audio_file : r \in s.db.episode} = {Local1, Local2}
            /\ \A r \in s.db.episode : r.owner = U1
            /\ s.ext.files = {Local1, Local2}}

\* no fault is injected: the budget of faults is used up from the start
InitConc ==
    /\ \E s \in ConcStores : db = s.db /\ ext = s.ext /\ orig = s
    /\ call = [c \in AllSlots |-> IdleCall]
    /\ ncalls = 0
    /\ prev = <<>>
    /\ ever = [NoFaultYet EXCEPT !.n = MaxFaults]
    /\ link = IdleLink
    /\ script = IdleScript
    /\ AuxIdle

\* a clear request for the first user
StartSame(c) == StartWith(c, CallerIds, {StrU1})

\* each await of a call is a point where the other call may run
NextConc ==
    \E c \in AllSlots :
        \/ StartSame(c)
        \/ CheckUser(c)
        \/ ReapSelect(c)
        \/ ReapEpisode(c)
        \/ Collect(c)
        \/ Delete(c)

SpecConc == InitConc /\ [][NextConc]_vars

\* C14: when requests clearing the same user run concurrently and no fault is
\* injected, under every interleaving of their queries and asset operations
\* each request can always execute its next statement and ends with 200, no
\* state on the way holds an edge or a derived record that refers to a deleted
\* row, and once no request is running the store and the assets are those a
\* single clear leaves.
C14_ConcurrentClearsAreSafe ==
    /\ \A c \in AllSlots :
          /\ Finished(c) => call[c].status = 200
          /\ call[c].pc \notin {"idle", "done"} => ENABLED ProgressStep(c)
    /\ NoDangling(db)
    /\ (ncalls >= 1 /\ \A c \in AllSlots : call[c].pc \in {"idle", "done"}) =>
          Now = Cleared(orig, U1)

\* both requests have answered 200; the second one started while the first
\* had deleted part of the user's data, and deleted rows itself
C14_Witness ==
    /\ \A c \in AllSlots : Succeeded(c)
    /\ \E c, d \in AllSlots :
          /\ call[c].start = orig
          /\ call[d].start.db # orig.db
          /\ call[d].start.db # Cleared(orig, U1).db
          /\ call[d].source_ids # {}
          /\ call[d].ndel > Cardinality(ByOwnerSteps)
    /\ Now = Cleared(orig, U1)
    /\ orig.db.reference # {}

----------------------------------------------------------------------------
(* The link request: routers/notebooks.py add_source_to_notebook *)

\* owner IS NONE: the entity has no owner yet
NoOwner == [tb |-> "", id |-> "none"]

\* the row of table tb with this id, as a set (empty when there is none)
GetRow(d, tb, id) == {r \in d[tb] : r.id = id}

\* the response of add_source_to_notebook
LinkReturn(l, status) == [l EXCEPT !.pc = "done", !.status = status]

\* mutant: the routes have no ownership check
OwnedByOther_Never(row, user) == FALSE

\* `if x.owner and str(x.owner) != str(current_user.id)`
OwnedByOther(row, user) == row.owner # NoOwner /\ to_string(row.owner) # user

\* get_current_active_user resolved the token to an existing user; the path
\* parameters name a notebook and a source
LinkStart(users) ==
    /\ link.pc = "idle"
    /\ \E u \in users, n \in NotebookIds, x \in SourceIds :
          /\ SelectUser(db, ensure_record_id(u)) # {}
          /\ link' = [IdleLink EXCEPT !.pc = "get_notebook", !.user = u,
                                      !.notebook_id = n, !.source_id = x]
    /\ UNCHANGED <<db, ext, call, ncalls, prev, ever, orig, script, aux>>

\* notebook = await Notebook.get(notebook_id), existence and owner check
LinkGetNotebook ==
    /\ link.pc = "get_notebook"
    /\ LET rows == GetRow(db, "notebook", link.notebook_id)
       IN  link' = IF rows = {} THEN LinkReturn(link, 404)
                   ELSE IF \E r \in rows : OwnedByOther(r, link.user)
                   THEN LinkReturn(link, 403)
                   ELSE [link EXCEPT !.pc = "get_source"]
    /\ UNCHANGED <<db, ext, call, ncalls, prev, ever, orig, script, aux>>

\* source = await Source.get(source_id), existence and owner check;
\* `if not source.owner:` decides on the row as it was read
LinkGetSource ==
    /\ link.pc = "get_source"
    /\ LET rows == GetRow(db, "source", link.source_id)
       IN  link' = IF rows = {} THEN LinkReturn(link, 404)
                   ELSE IF \E r \in rows : OwnedByOther(r, link.user)
                   THEN LinkReturn(link, 403)
                   ELSE LET src == CHOOSE r \in rows : TRUE
                        IN  [link EXCEPT !.source = src,
                                         !.pc = IF src.owner = NoOwner
                                                THEN "save_source" ELSE "select_ref"]
    /\ UNCHANGED <<db, ext, call, ncalls, prev, ever, orig, script, aux>>

\* Source.save(): the object read before is written back with its new owner
SourceSave(d, src) ==
    [d EXCEPT !.source = {IF r.id = src.id THEN src ELSE r : r \in @}]

\* source.assign_owner(current_user.id); await source.save()
LinkSave ==
    /\ link.pc = "save_source"
    /\ db' = SourceSave(db, [link.source EXCEPT !.owner = ensure_record_id(link.user)])
    /\ link' = [link EXCEPT !.pc = "select_ref"]
    /\ UNCHANGED <<ext, call, ncalls, prev, ever, orig, script, aux>>

\* SELECT * FROM reference WHERE out = $source_id AND in = $notebook_id
SelectExistingRef(d, notebook_id, source_id) ==
    {r \in d.reference : r.out = source_id /\ r.in = notebook_id}

\* existing_ref = await repo_query(...); `if not existing_ref:`
LinkSelectRef ==
    /\ link.pc = "select_ref"
    /\ link' = IF SelectExistingRef(db, link.notebook_id, link.source_id) # {}
               THEN LinkReturn([link EXCEPT !.existing = TRUE], 200)
               ELSE [link EXCEPT !.pc = "relate"]
    /\ UNCHANGED <<db, ext, call, ncalls, prev, ever, orig, script, aux>>

\* the id the store gives to a new edge i -> o: one that no edge has
NewEdgeId(rows, i, o) ==
    LET free == {k \in 0..Cardinality(rows) : \A r \in rows : r.id # <<i.id, o.id, k>>}
    IN  <<i.id, o.id, CHOOSE k \in free : \A j \in free : k <= j>>

\* RELATE $source_id->reference->$notebook_id: a new edge record with
\* in = source, out = notebook
Relate(d, notebook_id, source_id) ==
    [d EXCEPT !.reference =
        @ \cup {EdgeRow(NewEdgeId(@, source_id, notebook_id), source_id, notebook_id)}]

\* await repo_query("RELATE ..."); a store that finds an endpoint missing may
\* create the edge or refuse the statement (the generic handler answers 500)
LinkRelate ==
    /\ link.pc = "relate"
    /\ \E accepted \in
            IF GetRow(db, "notebook", link.notebook_id) # {}
               /\ GetRow(db, "source", link.source_id) # {}
            THEN {TRUE} ELSE BOOLEAN :
          IF accepted
          THEN /\ db' = Relate(db, link.notebook_id, link.source_id)
               /\ link' = LinkReturn(link, 200)
          ELSE /\ db' = db
               /\ link' = LinkReturn(link, 500)
    /\ UNCHANGED <<ext, call, ncalls, prev, ever, orig, script, aux>>

----------------------------------------------------------------------------
(* A clear of the first user while the user's own link request is running *)

\* everything is owned by the first user; no edge, one edge or every edge
LinkStores ==
    {s \in GraphStores :
        /\ \A r \in s.db.notebook \cup s.db.source \cup s.db.note : r.owner = U1
        /\ s.db.artifact = AllArts /\ s.db.source_embedding # {}}

InitLink ==
    /\ \E s \in LinkStores : db = s.db /\ ext = s.ext /\ orig = s
    /\ call = [c \in AllSlots |-> IdleCall]
    /\ ncalls = 0
    /\ prev = <<>>
    /\ ever = [NoFaultYet EXCEPT !.n = MaxFaults]
    /\ link = IdleLink
    /\ script = IdleScript
    /\ AuxIdle

\* the link request of the user who is being cleared
LinkStartOwn == LinkStart({StrU1})

NextLink ==
    \/ \E c \in Slots :
          \/ StartSame(c)
          \/ CheckUser(c)
          \/ ReapSelect(c)
          \/ ReapEpisode(c)
          \/ Collect(c)
          \/ Delete(c)
    \/ LinkStartOwn
    \/ LinkGetNotebook
    \/ LinkGetSource
    \/ LinkSelectRef
    \/ LinkRelate

SpecLink == InitLink /\ [][NextLink]_vars

\* the ids the clear of slot c has deleted: owned at its start, gone now
DeletedBy(c) ==
    OwnedIds(call[c].start.db, T(c)) \
        {r.id : r \in db.notebook \cup db.source \cup db.note \cup db.episode}

\* C16 as claimed: also when the user's own add_source_to_notebook request
\* interleaves with the clear, after the clear has finished no reference edge
\* has an endpoint that the clear deleted.
C16_NoDanglingEdgeUnderLink ==
    \A c \in Slots :
        Succeeded(c) =>
            \A r \in db.reference : r.in \notin DeletedBy(c) /\ r.out \notin DeletedBy(c)

----------------------------------------------------------------------------
(* The owner backfill: scripts/assign_owners_to_existing_data.py *)

\* the tables the script goes through, in its order
ScriptTables == <<"notebook", "note", "source">>

\* the statement after the loop over `table`: the next SELECT, or the end
AfterTable(sc) ==
    LET i == CHOOSE k \in 1..Len(ScriptTables) : ScriptTables[k] = sc.table
    IN  IF i = Len(ScriptTables)
        THEN [sc EXCEPT !.pc = "done", !.todo = <<>>]
        ELSE [sc EXCEPT !.pc = "select_rows", !.table = ScriptTables[i + 1], !.todo = <<>>]

\* SELECT id FROM <table> WHERE owner IS NULL OR owner = NONE
SelectUnowned(d, tb) == {r.id : r \in {x \in d[tb] : x.owner = NoOwner}}

\* UPDATE <table> SET owner = $owner WHERE id = $id
UpdateOwner(d, tb, id, owner) ==
    [d EXCEPT ![tb] = {IF r.id = id THEN [r EXCEPT !.owner = owner] ELSE r : r \in @}]

\* asyncio.run(assign_owners())
ScriptStart ==
    /\ script.pc = "idle"
    /\ script' = [script EXCEPT !.pc = "select_users"]
    /\ UNCHANGED <<db, ext, call, ncalls, prev, ever, orig, link, aux>>

\* users = SELECT * FROM user; first_user_id = users[0].get("id"): the row
\* the store returns first
ScriptSelectUsers ==
    /\ script.pc = "select_users"
    /\ IF db.user = {}
       THEN script' = [script EXCEPT !.pc = "done"]
       ELSE \E first \in db.user :
               script' = [script EXCEPT !.pc = "select_rows", !.table = ScriptTables[1],
                                        !.first_user_id = first.id]
    /\ UNCHANGED <<db, ext, call, ncalls, prev, ever, orig, link, aux>>

\* <table>_result = SELECT id FROM <table> WHERE owner IS NULL OR owner = NONE
ScriptSelect ==
    /\ script.pc = "select_rows"
    /\ \E order \in Orders(SelectUnowned(db, script.table)) :
          script' = IF order = <<>> THEN AfterTable(script)
                    ELSE [script EXCEPT !.pc = "update", !.todo = order]
    /\ UNCHANGED <<db, ext, call, ncalls, prev, ever, orig, link, aux>>

\* one iteration of the for loop: await repo_query("UPDATE ...")
ScriptUpdate ==
    /\ script.pc = "update"
    /\ db' = UpdateOwner(db, script.table, Head(script.todo), script.first_user_id)
    /\ script' = IF Tail(script.todo) = <<>> THEN AfterTable(script)
                 ELSE [script EXCEPT !.todo = Tail(@)]
    /\ UNCHANGED <<ext, call, ncalls, prev, ever, orig, link, aux>>

----------------------------------------------------------------------------
(* The backfill script while a link request is running *)

\* legacy stores: notebooks, sources and the note with or without an owner
BackfillStores ==
    { [db |-> MkDb(on, os, [t \in NoteIds |-> NoOwner], {}, {}, {}, {}, {}, Users),
       ext |-> FullExt] :
        on \in [NotebookIds -> {NoOwner, U1}], os \in [SourceIds -> {NoOwner, U2}] }

InitBackfill ==
    /\ \E s \in BackfillStores : db = s.db /\ ext = s.ext /\ orig = s
    /\ call = [c \in AllSlots |-> IdleCall]
    /\ ncalls = 0
    /\ prev = <<>>
    /\ ever = NoFaultYet
    /\ link = IdleLink
    /\ script = IdleScript
    /\ AuxIdle

\* a link request of either user
LinkStartAny == LinkStart({StrU1, StrU2})

NextBackfill ==
    \/ ScriptStart
    \/ ScriptSelectUsers
    \/ ScriptSelect
    \/ ScriptUpdate
    \/ LinkStartAny
    \/ LinkGetNotebook
    \/ LinkGetSource
    \/ LinkSave
    \/ LinkSelectRef
    \/ LinkRelate

SpecBackfill == InitBackfill /\ [][NextBackfill]_vars

\* C20 as claimed: under every interleaving of assign_owners with the backfill
\* in add_source_to_notebook, a notebook, note or source that has an owner
\* keeps that owner in every step: the only transition is unset to set.
C20_OwnerNeverChangesOnceSet ==
    [][\A tb \in {"notebook", "note", "source"} :
          \A r \in db[tb] :
              r.owner # NoOwner =>
                  \A q \in db'[tb] : q.id = r.id => q.owner = r.owner]_vars

----------------------------------------------------------------------------
(* Admin read requests: AdminService.list_users and get_user_detail *)

\* a row of the user table with its creation time
UserRow(u, stamp) == [id |-> u, created |-> stamp]

\* mutant: the newest user comes first
SortedByCreated_Desc(rows) ==
    {q \in Orders(rows) :
        \A i, j \in 1..Len(q) : i < j => q[i].created >= q[j].created}

\* SELECT ... FROM user ORDER BY created: the orders the statement may return
SortedByCreated(rows) ==
    {q \in Orders(rows) :
        \A i, j \in 1..Len(q) : i < j => q[i].created <= q[j].created}

\* SELECT count() AS count FROM <table> WHERE owner = $owner: the statement
\* has no GROUP clause, so the store answers with one row per selected
\* record, and count() is 1 in each of them
SelectCount(rows, owner) ==
    [i \in 1..Cardinality({r \in rows : r.owner = owner}) |-> [count |-> 1]]

\* _count_records: the count field of the first row of the result, 0 when
\* the result is empty
count_records(d, table, owner_ref) ==
    LET result == SelectCount(d[table], owner_ref)
    IN  IF result # <<>> THEN result[1].count ELSE 0

\* AdminUserSummary: the identifier and the four counts
Summary(id, n) ==
    [ id |-> id, notebook_count |-> n["notebook"], source_count |-> n["source"],
      note_count |-> n["note"], episode_count |-> n["episode"] ]

\* the count of a summary for a table
CountOf(summary, tb) ==
    CASE tb = "notebook" -> summary.notebook_count
      [] tb = "source" -> summary.source_count
      [] tb = "note" -> summary.note_count
      [] tb = "episode" -> summary.episode_count

\* what the admin read actions leave alone
AdmFrame == UNCHANGED <<db, ext, call, ncalls, prev, ever, orig, link, script, env, ctx, health, route, more>>

\* the four coroutines handed to asyncio.gather for the user at the head
Gather(a, users) ==
    [a EXCEPT !.pc = "gather", !.users = users, !.owner_ref = users[1].id,
              !.pending = CountedTables, !.counts = IdleAdm.counts]

\* list_users is called and suspends at the awaited query for the users
ListStart ==
    /\ adm.pc \in {"idle", "done"}
    /\ adm' = [IdleAdm EXCEPT !.op = "list", !.pc = "list_select_users"]
    /\ AdmFrame

\* users = SELECT ... FROM user ORDER BY created has returned; an empty
\* result returns the empty list
ListSelectUsers ==
    /\ adm.pc = "list_select_users"
    /\ \E users \in SortedByCreated(db.user) :
          adm' = IF users = <<>>
                 THEN [adm EXCEPT !.pc = "done", !.status = 200]
                 ELSE Gather(adm, users)
    /\ AdmFrame

\* one of the pending _count_records coroutines runs its query and returns
ListCount ==
    /\ adm.pc = "gather" /\ adm.op = "list"
    /\ \E tb \in adm.pending :
          adm' = [adm EXCEPT !.counts[tb] = count_records(db, tb, adm.owner_ref),
                             !.pending = @ \ {tb}]
    /\ AdmFrame

\* gather has returned: the summary is appended, the loop goes to the next
\* user or list_users returns the summaries
ListAppend ==
    /\ adm.pc = "gather" /\ adm.op = "list" /\ adm.pending = {}
    /\ LET done == [adm EXCEPT !.summaries = Append(@, Summary(adm.users[1].id, adm.counts))]
           rest == Tail(adm.users)
       IN  adm' = IF rest = <<>>
                  THEN [done EXCEPT !.pc = "done", !.users = rest, !.status = 200]
                  ELSE Gather(done, rest)
    /\ AdmFrame

\* mutant: the listing has lost its WHERE clause
SelectOwned_AllOwners(rows, owner) == {[id |-> r.id] : r \in rows}

\* SELECT id, ... FROM <table> WHERE owner = $owner
SelectOwned(rows, owner) == {[id |-> r.id] : r \in {x \in rows : x.owner = owner}}

\* router get_user_detail -> service: owner_ref = ensure_record_id(user_id),
\* whose error the router's `except ValueError` turns into 404
DetailStart ==
    /\ adm.pc \in {"idle", "done"}
    /\ \E uid \in AnyRequestIds :
          adm' = IF ensure_record_id(uid) = InvalidIdentifier
                 THEN [IdleAdm EXCEPT !.op = "detail", !.user_id = uid,
                                      !.pc = "done", !.status = 404]
                 ELSE [IdleAdm EXCEPT !.op = "detail", !.user_id = uid,
                                      !.pc = "select_user",
                                      !.owner_ref = ensure_record_id(uid)]
    /\ AdmFrame

\* user_rows = SELECT ... FROM user WHERE id = $user_id; if not user_rows:
\* raise ValueError("User not found") (router: 404)
DetailSelectUser ==
    /\ adm.pc = "select_user"
    /\ adm' = IF SelectUser(db, adm.owner_ref) = {}
              THEN [adm EXCEPT !.pc = "done", !.status = 404]
              ELSE [adm EXCEPT !.pc = "gather", !.pending = CountedTables]
    /\ AdmFrame

\* one of the four pending listing queries runs and returns
DetailQuery ==
    /\ adm.pc = "gather" /\ adm.op = "detail"
    /\ \E tb \in adm.pending :
          adm' = [adm EXCEPT !.rows[tb] = SelectOwned(db[tb], adm.owner_ref),
                             !.pending = @ \ {tb}]
    /\ AdmFrame

\* gather has returned: the summary counts are the lengths of the listings
DetailReturn ==
    /\ adm.pc = "gather" /\ adm.op = "detail" /\ adm.pending = {}
    /\ adm' = [adm EXCEPT
                  !.summaries = <<Summary(adm.owner_ref,
                                          [tb \in CountedTables |-> Cardinality(adm.rows[tb])])>>,
                  !.pc = "done", !.status = 200]
    /\ AdmFrame

\* an awaited query raises: the error is no ValueError and leaves the request
AdmFault ==
    /\ adm.pc \in {"list_select_users", "select_user", "gather"}
    /\ adm.pc = "gather" => adm.pending # {}
    /\ adm' = [adm EXCEPT !.pc = "done", !.status = 500]
    /\ AdmFrame

\* the creation times of the users, all different
CreatedTimes ==
    {cr \in [Users -> 1..Cardinality(Users)] : \A u, v \in Users : cr[u] = cr[v] => u = v}

\* stores for the admin reads: every ownership pattern of the graph, a user
\* who owns nothing, every creation order, and user tables that lack a user
AdminStores ==
    { [db |-> [s.db EXCEPT !.user = {UserRow(u, cr[u]) : u \in us}], ext |-> s.ext] :
        s \in {g \in GraphStores : g.db.reference = {} /\ g.db.artifact = {}
                                   /\ g.db.source_embedding = {}}
              \cup EmptyTenantStores,
        cr \in CreatedTimes, us \in {Users, {U2}, {}} }

InitAdmin ==
    /\ \E s \in AdminStores : db = s.db /\ ext = s.ext /\ orig = s
    /\ call = [c \in AllSlots |-> IdleCall]
    /\ ncalls = 0
    /\ prev = <<>>
    /\ ever = NoFaultYet
    /\ link = IdleLink
    /\ script = IdleScript
    /\ AuxIdle

NextAdmin ==
    \/ ListStart
    \/ ListSelectUsers
    \/ ListCount
    \/ ListAppend
    \/ DetailStart
    \/ DetailSelectUser
    \/ DetailQuery
    \/ DetailReturn
    \/ AdmFault

SpecAdmin == InitAdmin /\ [][NextAdmin]_vars

\* the rows of a table whose owner is the user
OwnedRows(d, tb, u) == {r \in d[tb] : r.owner = u}

\* C21: every count that list_users has obtained for a user, in whatever
\* order the four count queries of the gather ran, and every count of the
\* summaries it returns, is the number of rows of that collection owned by
\* the user (0 when there is none).
C21_CountsEqualOwnedRows ==
    adm.op = "list" =>
        /\ adm.pc = "gather" =>
              \A tb \in CountedTables \ adm.pending :
                  adm.counts[tb] = Cardinality(OwnedRows(db, tb, adm.owner_ref))
        /\ \A i \in 1..Len(adm.summaries) : \A tb \in CountedTables :
              CountOf(adm.summaries[i], tb) =
                  Cardinality(OwnedRows(db, tb, adm.summaries[i].id))

\* the creation time of the user row with the identifier
CreatedOf(d, id) == (CHOOSE r \in d.user : r.id = id).created

\* C22: list_users changes neither the store nor the assets, and when it
\* returns, its summaries are one per row of the user table, each user once,
\* in the order in which the users were created.
C22_OneSummaryPerUserInCreationOrder ==
    adm.op = "list" =>
        /\ db = orig.db /\ ext = orig.ext
        /\ (adm.pc = "done" /\ adm.status = 200) =>
              /\ Len(adm.summaries) = Cardinality(db.user)
              /\ {adm.summaries[i].id : i \in 1..Len(adm.summaries)} = {r.id : r \in db.user}
              /\ \A i, j \in 1..Len(adm.summaries) :
                    i < j => CreatedOf(db, adm.summaries[i].id)
                                 < CreatedOf(db, adm.summaries[j].id)

\* list_users has returned two summaries, the second user's first because
\* that user was created first
C22_Witness ==
    /\ adm.op = "list" /\ adm.pc = "done" /\ adm.status = 200
    /\ Len(adm.summaries) = Cardinality(Users)
    /\ adm.summaries[1].id = U2
    /\ CreatedOf(db, U2) < CreatedOf(db, U1)

\* C23: unless one of its queries raised (500), get_user_detail ends in 404
\* exactly when the identifier denotes no row of the user table; when it
\* answers 200 the user exists, each listing holds exactly the rows of its
\* table owned by the user, and each summary count is the length of its
\* listing.
C23_DetailOfExistingUserOrNotFound ==
    (adm.op = "detail" /\ adm.pc = "done") =>
        LET exists == \E r \in db.user : to_string(r.id) = adm.user_id
        IN  /\ adm.status \in {200, 404, 500}
            /\ adm.status # 500 => (adm.status = 404 <=> ~exists)
            /\ adm.status = 200 =>
                  \A tb \in CountedTables :
                      /\ adm.rows[tb] =
                            {[id |-> r.id] : r \in OwnedRows(db, tb, ensure_record_id(adm.user_id))}
                      /\ CountOf(adm.summaries[1], tb) = Cardinality(adm.rows[tb])

\* the detail of a user with two notebooks and no note has been returned
\* while the other user owns rows too
C23_Witness ==
    /\ adm.op = "detail" /\ adm.pc = "done" /\ adm.status = 200
    /\ adm.summaries[1].notebook_count = Cardinality(NotebookIds)
    /\ adm.summaries[1].note_count = 0
    /\ adm.rows["notebook"] = {[id |-> n] : n \in NotebookIds}
    /\ \E r \in db.note : r.owner # adm.owner_ref

----------------------------------------------------------------------------
(* Provider keys staged in the process environment:
   open_notebook.utils.provider_env.user_provider_context *)

\* PROVIDER_ENV_MAPPING
PROVIDER_ENV_MAPPING ==
    [ openai |-> "OPENAI_API_KEY", anthropic |-> "ANTHROPIC_API_KEY",
      gemini |-> "GOOGLE_API_KEY", google |-> "GOOGLE_API_KEY" ]
        @@ ("google-vertex" :> "GOOGLE_API_KEY")
        @@ [ vertexai |-> "GOOGLE_API_KEY", mistral |-> "MISTRAL_API_KEY",
             deepseek |-> "DEEPSEEK_API_KEY", xai |-> "XAI_API_KEY",
             groq |-> "GROQ_API_KEY", voyage |-> "VOYAGE_API_KEY",
             elevenlabs |-> "ELEVENLABS_API_KEY", cohere |-> "COHERE_API_KEY",
             openrouter |-> "OPENROUTER_API_KEY" ]

\* PROVIDER_ENV_MAPPING.get(provider): None for a provider without a mapping
NoVar == "(none)"
EnvVarOf(provider) ==
    IF provider \in DOMAIN PROVIDER_ENV_MAPPING
    THEN PROVIDER_ENV_MAPPING[provider] ELSE NoVar

\* open_notebook.utils.crypto: a ciphertext is <<"enc", plain>>; anything
\* else cannot be decrypted
DecryptError == "(decrypt error)"
encrypt_value(plain) == <<"enc", plain>>
decrypt_value(c) == IF Len(c) = 2 /\ c[1] = "enc" THEN c[2] ELSE DecryptError

\* UserProviderSecret.get_plain_value
get_plain_value(secret) == decrypt_value(secret.encrypted_value)

\* a is a contiguous part of b (Python's `a in b` on strings)
IsIn(a, b) ==
    \E i \in 0..(Len(b) - Len(a)) : SubSeq(b, i + 1, i + Len(a)) = a

\* the words with an upper-case letter and their lower-case forms
LowerCase ==
    [ USER |-> "user", UPDATED |-> "updated", DESC |-> "desc", Name |-> "name",
      DELETE |-> "delete", U2 |-> "u2" ]

\* str.lower() on a string given as its parts
lower(str) ==
    [i \in DOMAIN str |-> IF str[i] \in DOMAIN LowerCase THEN LowerCase[str[i]]
                                                          ELSE str[i]]

\* the identifiers that begin with another identifier, as the parts that
\* show it: "u10" is "u1" followed by "0"
Letters == [u10 |-> <<"u1", "0">>]

\* a string spelled out, so that `in` sees the parts inside an identifier
RECURSIVE Spell(_)
Spell(str) ==
    IF str = <<>> THEN <<>>
    ELSE (IF Head(str) \in DOMAIN Letters THEN Letters[Head(str)] ELSE <<Head(str)>>)
            \o Spell(Tail(str))

\* `user_str in record_user or record_user in user_str` on the lower-cased
\* strings
UserMatches(user, record) ==
    LET user_str == Spell(lower(user))
        record_user == Spell(lower(to_string(record.user)))
    IN  IsIn(user_str, record_user) \/ IsIn(record_user, user_str)

\* UserProviderSecret.list_for_user: every record is fetched and kept when
\* the lower-cased user strings contain one another
list_for_user(rows, user) == {r \in rows : UserMatches(user, r)}

\* UserProviderSecret.get_for_user on the rows of the provider in the order
\* the store returned them: the first record that matches, or None
get_for_user(results, user) ==
    LET hits == {i \in DOMAIN results : UserMatches(user, results[i])}
    IN  IF hits = {} THEN <<>>
        ELSE results[CHOOSE i \in hits : \A j \in hits : i <= j]

\* mutant: a variable that is already set keeps its value
SetEnv_IfUnset(e, v, value) == IF e[v] = Unset THEN [e EXCEPT ![v] = value] ELSE e

\* os.environ[env_var] = value
SetEnv(e, v, value) == [e EXCEPT ![v] = value]

\* mutant: the value found at each overwrite is remembered, the last one wins
SetDefault_Overwrite(previous, v, value) == [previous EXCEPT ![v] = value]

\* previous_values.setdefault(env_var, value): the first value stays
SetDefault(previous, v, value) ==
    IF previous[v] = NotSaved THEN [previous EXCEPT ![v] = value] ELSE previous

\* the for loop over the secrets, up to the yield or to the first secret
\* whose decryption raises
RECURSIVE ApplySecrets(_, _)
ApplySecrets(st, secrets) ==
    IF secrets = <<>> THEN st
    ELSE LET secret == Head(secrets)
             env_var == EnvVarOf(secret.provider)
         IN  IF env_var = NoVar THEN ApplySecrets(st, Tail(secrets))
             ELSE LET saved == SetDefault(st.previous_values, env_var, st.env[env_var])
                      plain == get_plain_value(secret)
                  IN  IF plain = DecryptError
                      THEN [st EXCEPT !.previous_values = saved, !.raised = TRUE]
                      ELSE ApplySecrets([st EXCEPT !.previous_values = saved,
                                                   !.env = SetEnv(@, env_var, plain)],
                                        Tail(secrets))

\* the finally block: every saved variable gets its saved value back, or is
\* removed when it was not set
Restore(e, previous) ==
    [v \in DOMAIN e |-> IF previous[v] = NotSaved THEN e[v] ELSE previous[v]]

\* what the context actions leave alone
CtxFrame == UNCHANGED <<db, ext, call, ncalls, prev, ever, orig, link, script, adm, health, route, more>>

\* the user_id argument: None, or the identifier of a user
ContextUsers == {<<>>, StrU1, StrU2}

\* async with user_provider_context(user_id): `if not user_id: yield`
CtxEnter(k) ==
    /\ ctx[k].pc = "idle"
    /\ \E uid \in ContextUsers :
          ctx' = [ctx EXCEPT ![k] = [IdleCtx EXCEPT !.user_id = uid,
                                         !.pc = IF uid = <<>> THEN "body" ELSE "list"]]
    /\ UNCHANGED env
    /\ CtxFrame

\* secrets = await list_for_user(user_id), in the order of the store or []
\* when the query raised; `if not secrets: yield`
CtxList(k) ==
    /\ ctx[k].pc = "list"
    /\ \E secrets \in Orders(list_for_user(db.user_provider_secret, ctx[k].user_id))
                      \cup {<<>>} :
          ctx' = [ctx EXCEPT ![k].secrets = secrets,
                             ![k].pc = IF secrets = <<>> THEN "body" ELSE "apply"]
    /\ UNCHANGED env
    /\ CtxFrame

\* the loop runs to the yield without suspending; when a decryption raises
\* the finally block runs at once and the error leaves the context
CtxApply(k) ==
    /\ ctx[k].pc = "apply"
    /\ LET st == ApplySecrets([env |-> env, previous_values |-> IdleCtx.previous_values,
                               raised |-> FALSE], ctx[k].secrets)
       IN  IF st.raised
           THEN /\ env' = Restore(st.env, st.previous_values)
                /\ ctx' = [ctx EXCEPT ![k].pc = "done", ![k].raised = TRUE,
                                      ![k].previous_values = st.previous_values]
           ELSE /\ env' = st.env
                /\ ctx' = [ctx EXCEPT ![k].pc = "body",
                                      ![k].previous_values = st.previous_values]
    /\ CtxFrame

\* the body of the with statement ends, normally or with an error, and the
\* finally block restores the saved values
CtxExit(k) ==
    /\ ctx[k].pc = "body"
    /\ env' = Restore(env, ctx[k].previous_values)
    /\ \E raised \in BOOLEAN :
          ctx' = [ctx EXCEPT ![k].pc = "done", ![k].raised = raised]
    /\ CtxFrame

SecretRow(k, u, provider, value) ==
    [ id |-> RID("user_provider_secret", k), user |-> u, provider |-> provider,
      encrypted_value |-> value, display_name |-> "" ]

\* the keys of the two users and the key the server was started with
KeyA == "key-a"
KeyA2 == "key-a2"
KeyB == "key-b"
BaseKey == "key-base"
Garbage == <<"garbage">>

\* secret tables: both users on one provider; two secrets of a user on one
\* variable; a provider without a mapping; a secret that cannot be decrypted
SecretTables ==
    { {SecretRow("a1", U1, "openai", encrypt_value(KeyA)),
       SecretRow("b1", U2, "openai", encrypt_value(KeyB))},
      {SecretRow("a1", U1, "gemini", encrypt_value(KeyA)),
       SecretRow("a2", U1, "google", encrypt_value(KeyA2)),
       SecretRow("b1", U2, "gemini", encrypt_value(KeyB))},
      {SecretRow("a1", U1, "openai", encrypt_value(KeyA)),
       SecretRow("a2", U1, "ollama", encrypt_value(KeyA2)),
       SecretRow("b1", U2, "ollama", encrypt_value(KeyB))},
      {SecretRow("a1", U1, "openai", encrypt_value(KeyA)),
       SecretRow("a2", U1, "gemini", Garbage),
       SecretRow("b1", U2, "openai", encrypt_value(KeyB))} }

\* the environment the server was started with
StartEnvs == [EnvVars -> {Unset, BaseKey}]

InitProv ==
    /\ \E s \in EmptyTenantStores, t \in SecretTables, e \in StartEnvs :
          /\ db = [s.db EXCEPT !.user_provider_secret = t]
          /\ ext = s.ext
          /\ env = e
          /\ orig = [db |-> db, ext |-> ext, env |-> e]
    /\ call = [c \in AllSlots |-> IdleCall]
    /\ ncalls = 0
    /\ prev = <<>>
    /\ ever = NoFaultYet
    /\ link = IdleLink
    /\ script = IdleScript
    /\ adm = IdleAdm
    /\ ctx = [k \in CtxSlots |-> IdleCtx]
    /\ health = IdleHealth(0, 0)
    /\ route = IdleRoute
    /\ MoreIdle

NextProv ==
    \E k \in CtxSlots :
        \/ CtxEnter(k)
        \/ CtxList(k)
        \/ CtxApply(k)
        \/ CtxExit(k)

SpecProv == InitProv /\ [][NextProv]_vars

\* the keys stored for a user
KeysOf(d, u) ==
    {get_plain_value(r) : r \in {x \in d.user_provider_secret : x.user = u}}

\* the variables the secrets of a context map to
VarsOf(secrets) ==
    {EnvVarOf(secrets[i].provider) : i \in 1..Len(secrets)} \ {NoVar}

\* C24: whenever a context applies its secrets while the body of another
\* context is running, that body goes on running with every variable the
\* new context maps to holding the new context's key.
C24_OverlappingContextsRace ==
    [][\A j, k \in CtxSlots :
          (/\ j # k
           /\ ctx[k].pc = "body"
           /\ ctx[j].pc = "apply" /\ ctx'[j].pc = "body") =>
              /\ ctx'[k].pc = "body"
              /\ \A v \in VarsOf(ctx[j].secrets) :
                    env'[v] \in KeysOf(db, ensure_record_id(ctx[j].user_id))]_vars

\* the body of the first user's context is running, the context has staged
\* that user's key, and the variable holds the second user's key
C24_Witness ==
    \E j, k \in CtxSlots :
        /\ ctx[k].pc = "body" /\ ctx[k].user_id = StrU1
        /\ ctx[j].pc = "body" /\ ctx[j].user_id = StrU2
        /\ ctx[k].previous_values["OPENAI_API_KEY"] # NotSaved
        /\ env["OPENAI_API_KEY"] = KeyB
        /\ KeyB \notin KeysOf(db, U1)

\* the task has not written to the environment: it has not reached its loop
NotApplied(k) == ctx[k].pc \in {"idle", "list", "apply"}

\* the variables some provider maps to
MappedVars == {PROVIDER_ENV_MAPPING[p] : p \in DOMAIN PROVIDER_ENV_MAPPING}

\* C26: when one context has exited (normally, or because its body or a
\* decryption raised) and no other context has written to the environment,
\* every variable has the value it had before entry and a variable that was
\* unset is unset, also when several secrets map to one variable; and a
\* variable that no provider maps to keeps its value at all times.
C26_SingleContextRestoresEnv ==
    /\ \A j, k \in CtxSlots :
          (j # k /\ ctx[k].pc = "done" /\ NotApplied(j)) => env = orig.env
    /\ \A v \in EnvVars \ MappedVars : env[v] = orig.env[v]

\* a context whose two secrets map to one variable, which was set before,
\* and whose body raised, has exited; another context whose secrets map to
\* no variable of the environment had nothing to restore
C26_Witness ==
    \E j, k \in CtxSlots :
        /\ j # k /\ NotApplied(j)
        /\ ctx[k].pc = "done" /\ ctx[k].raised
        /\ Len(ctx[k].secrets) = Cardinality(VarsOf(ctx[k].secrets)) + 1
        /\ ctx[k].previous_values["GOOGLE_API_KEY"] = BaseKey
        /\ env["GOOGLE_API_KEY"] = BaseKey
        /\ orig.env["OPENAI_API_KEY"] = Unset

\* C27: once two contexts have both exited, in whatever order they entered
\* and exited, every variable has the value it had before the first entry
\* and the environment holds no key of a user.
C27_EnvRestoredAfterBothExit ==
    (\A k \in CtxSlots : ctx[k].pc = "done") =>
        /\ env = orig.env
        /\ \A v \in EnvVars, u \in Users : env[v] \notin KeysOf(db, u)

----------------------------------------------------------------------------
(* GET /health: api.routers.health.health_check *)

\* migrations shipped with the code
MaxVersion == 3

\* what the health actions leave alone
HealthFrame ==
    UNCHANGED <<db, ext, call, ncalls, prev, ever, orig, link, script, adm, env, ctx, route, more>>

\* health = {"status": "healthy", "checks": {}}
HealthStart ==
    /\ health.pc \in {"idle", "done"}
    /\ health' = [IdleHealth(health.current, health.latest) EXCEPT
                      !.pc = "database", !.status = "healthy"]
    /\ HealthFrame

\* check 1: SELECT 1 AS test returns a row, returns nothing, or the
\* connection or the query raises
HealthDatabase ==
    /\ health.pc = "database"
    /\ \E result \in {"row", "empty", "raise"} :
          health' = IF result = "row"
                    THEN [health EXCEPT !.pc = "version", !.database = "ok"]
                    ELSE [health EXCEPT !.pc = "version", !.database = "failed",
                                        !.status = "unhealthy"]
    /\ HealthFrame

\* the except branch of check 2
MigrationsFailed(h) ==
    [h EXCEPT !.pc = "return", !.migrations = "failed", !.status = "unhealthy"]

\* check 2: version = await manager.get_current_version()
HealthVersion ==
    /\ health.pc = "version"
    /\ \E raises \in BOOLEAN :
          health' = IF raises THEN MigrationsFailed(health)
                    ELSE [health EXCEPT !.pc = "needs_migration", !.version = health.current]
    /\ HealthFrame

\* AsyncMigrationManager.needs_migration: the store is behind the code
needs_migration(h) == h.current < h.latest

\* needs_migration = await manager.needs_migration(); the if/else on it
HealthNeedsMigration ==
    /\ health.pc = "needs_migration"
    /\ \E raises \in BOOLEAN :
          health' = IF raises THEN MigrationsFailed(health)
                    ELSE IF needs_migration(health)
                    THEN [health EXCEPT !.pc = "return", !.migrations = "warning",
                                        !.status = "degraded"]
                    ELSE [health EXCEPT !.pc = "return", !.migrations = "ok"]
    /\ HealthFrame

\* 200 for healthy and for degraded, 503 otherwise
StatusCode(status) ==
    IF status = "healthy" THEN 200
    ELSE IF status = "degraded" THEN 200
    ELSE 503

\* return JSONResponse(content=health, status_code=status_code)
HealthReturn ==
    /\ health.pc = "return"
    /\ health' = [health EXCEPT !.pc = "done", !.status_code = StatusCode(health.status)]
    /\ HealthFrame

InitHealth ==
    /\ \E s \in {CHOOSE x \in EmptyTenantStores : TRUE} :
          db = s.db /\ ext = s.ext /\ orig = s
    /\ call = [c \in AllSlots |-> IdleCall]
    /\ ncalls = 0
    /\ prev = <<>>
    /\ ever = NoFaultYet
    /\ link = IdleLink
    /\ script = IdleScript
    /\ adm = IdleAdm
    /\ env = [v \in EnvVars |-> Unset]
    /\ ctx = [k \in CtxSlots |-> IdleCtx]
    /\ \E latest \in 0..MaxVersion, current \in 0..MaxVersion :
          current <= latest /\ health = IdleHealth(current, latest)
    /\ route = IdleRoute
    /\ MoreIdle

NextHealth ==
    \/ HealthStart
    \/ HealthDatabase
    \/ HealthVersion
    \/ HealthNeedsMigration
    \/ HealthReturn

SpecHealth == InitHealth /\ [][NextHealth]_vars

\* C25: a health request that has answered gave 503 if the database check or
\* the migration check failed, and gave 200 only if neither failed; pending
\* migrations with both checks passing give "degraded" with 200.
C25_HealthStatusReflectsFailures ==
    health.pc = "done" =>
        LET failed == health.database = "failed" \/ health.migrations = "failed"
        IN  /\ failed => health.status_code = 503
            /\ health.status_code = 200 => ~failed
            /\ (~failed /\ health.migrations = "warning") =>
                  health.status = "degraded" /\ health.status_code = 200

----------------------------------------------------------------------------
(* The notebook routes: routers/notebooks.py get_notebooks, get_notebook,
   update_notebook, remove_source_from_notebook, delete_notebook, next to
   add_source_to_notebook *)

\* the users who send requests (get_current_active_user resolved the token)
RouteUsers == {StrU1, StrU2}

\* the routes started by RouteStart
RouteOps ==
    {"get_notebooks", "create_notebook", "get_notebook", "update_notebook",
     "remove_source", "delete_notebook"}

\* the routes that work on the notebook named in the path
NotebookOps == RouteOps \ {"get_notebooks", "create_notebook"}

\* what the route actions leave alone besides the store and the counter
RouteFrame ==
    UNCHANGED <<ext, call, prev, ever, orig, link, script, adm, env, ctx, health, more>>

\* the response of a route: 200 or the HTTPException
RouteReturn(r, status) == [r EXCEPT !.pc = "done", !.status = status]

\* a request arrives at one of the routes
RouteStart ==
    /\ ncalls < MaxCalls
    /\ ncalls' = ncalls + 1
    /\ route.pc \in {"idle", "done"}
    /\ \E op \in RouteOps, u \in RouteUsers, n \in NotebookIds, x \in SourceIds :
          /\ SelectUser(db, ensure_record_id(u)) # {}
          /\ op # "remove_source" => x = CHOOSE y \in SourceIds : TRUE
          /\ op \notin NotebookOps => n = CHOOSE y \in NotebookIds : TRUE
          /\ route' = [IdleRoute EXCEPT
                          !.op = op, !.user = u,
                          !.notebook_id = IF op \in NotebookOps THEN n ELSE @,
                          !.source_id = IF op = "remove_source" THEN x ELSE @,
                          !.pc = CASE op = "get_notebooks" -> "query"
                                   [] op = "create_notebook" -> "create"
                                   [] OTHER -> "get_notebook"]
    /\ UNCHANGED db
    /\ RouteFrame

\* the statement of each route that follows the ownership check
AfterCheck(op) ==
    CASE op = "get_notebook" -> "count"
      [] op = "update_notebook" -> "save"
      [] op = "remove_source" -> "delete_reference"
      [] op = "delete_notebook" -> "delete"

\* notebook = await Notebook.get(notebook_id); 404 when there is none, 403
\* when its owner is set and is not the caller
RouteGetNotebook ==
    /\ route.pc = "get_notebook"
    /\ LET rows == GetRow(db, "notebook", route.notebook_id)
       IN  route' = IF rows = {} THEN RouteReturn(route, 404)
                    ELSE IF \E r \in rows : OwnedByOther(r, route.user)
                    THEN RouteReturn(route, 403)
                    ELSE [route EXCEPT !.notebook = CHOOSE r \in rows : TRUE,
                                       !.pc = AfterCheck(route.op)]
    /\ UNCHANGED <<db, ncalls>>
    /\ RouteFrame

\* SELECT *, count(<-reference.in) AS source_count FROM $notebook_id: the
\* notebook with the number of reference edges that arrive at it
SelectWithCounts(d, notebook_id) ==
    {[id |-> r.id, name |-> r.name,
      source_count |-> Cardinality({e \in d.reference : e.out = notebook_id})] :
        r \in GetRow(d, "notebook", notebook_id)}

\* get_notebook: the query with counts; 404 when it returns nothing
RouteCount ==
    /\ route.pc = "count"
    /\ LET result == SelectWithCounts(db, route.notebook_id)
       IN  route' = IF result = {} THEN RouteReturn(route, 404)
                    ELSE RouteReturn([route EXCEPT !.result = result], 200)
    /\ UNCHANGED <<db, ncalls>>
    /\ RouteFrame

\* Notebook.save(): the object read before is written back
NotebookSave(d, nb) ==
    [d EXCEPT !.notebook = {IF r.id = nb.id THEN nb ELSE r : r \in @}]

\* the name sent with an update
NewName == "renamed"

\* update_notebook: the provided fields are set and the notebook is saved
RouteSave ==
    /\ route.pc = "save"
    /\ db' = NotebookSave(db, [route.notebook EXCEPT !.name = NewName])
    /\ route' = [route EXCEPT !.pc = "requery"]
    /\ UNCHANGED ncalls
    /\ RouteFrame

\* update_notebook: the query with counts after the update, or the fallback
\* built from the saved object
RouteRequery ==
    /\ route.pc = "requery"
    /\ LET result == SelectWithCounts(db, route.notebook_id)
           fallback == {[id |-> route.notebook.id, name |-> NewName, source_count |-> 0]}
       IN  route' = RouteReturn([route EXCEPT !.result = IF result # {} THEN result
                                                        ELSE fallback], 200)
    /\ UNCHANGED <<db, ncalls>>
    /\ RouteFrame

\* mutant: the statement names the edge by the id of the pair's first edge
DeleteReference_First(d, notebook_id, source_id) ==
    [d EXCEPT !.reference = @ \ {Edge(source_id, notebook_id)}]

\* DELETE FROM reference WHERE out = $notebook_id AND in = $source_id
DeleteReference(d, notebook_id, source_id) ==
    [d EXCEPT !.reference = {r \in @ : ~(r.out = notebook_id /\ r.in = source_id)}]

\* remove_source_from_notebook: the delete statement, then 200
RouteDeleteReference ==
    /\ route.pc = "delete_reference"
    /\ db' = DeleteReference(db, route.notebook_id, route.source_id)
    /\ route' = RouteReturn(route, 200)
    /\ UNCHANGED ncalls
    /\ RouteFrame

\* Notebook.delete(): the row is deleted; the store may or may not remove
\* the edges that touch it
NotebookDelete(d, id, cascade) ==
    [d EXCEPT !.notebook = {r \in @ : r.id # id},
              !.reference = IF cascade THEN {r \in @ : r.out # id} ELSE @,
              !.artifact = IF cascade THEN {r \in @ : r.out # id} ELSE @]

\* delete_notebook: await notebook.delete(), then 200
RouteDelete ==
    /\ route.pc = "delete"
    /\ \E cascade \in BOOLEAN : db' = NotebookDelete(db, route.notebook_id, cascade)
    /\ route' = RouteReturn(route, 200)
    /\ UNCHANGED ncalls
    /\ RouteFrame

\* the ids the store gives to created notebooks, in this order
NewNotebookIds == <<"new1", "new2", "new3">>

\* Notebook.save() of an object without an id: a row with a new id is added
NotebookSaveNew(d, owner, name) ==
    LET free == {i \in DOMAIN NewNotebookIds :
                    RID("notebook", NewNotebookIds[i]) \notin {r.id : r \in d.notebook}}
        id == RID("notebook", NewNotebookIds[CHOOSE i \in free : \A j \in free : i <= j])
    IN  [d EXCEPT !.notebook = @ \cup {[id |-> id, owner |-> owner, name |-> name]}]

\* the name sent with a create
CreatedName == "mine"

\* create_notebook: Notebook(name, description, owner=current_user.id) is
\* saved and returned with counts of 0
RouteCreate ==
    /\ route.pc = "create"
    /\ db' = NotebookSaveNew(db, ensure_record_id(route.user), CreatedName)
    /\ route' = RouteReturn([route EXCEPT !.result =
                    {[id |-> r.id, name |-> r.name, source_count |-> 0] :
                        r \in db'.notebook \ db.notebook}], 200)
    /\ UNCHANGED ncalls
    /\ RouteFrame

\* SELECT * FROM notebook WHERE owner = $owner_id
SelectNotebooks(d, owner_id) == {r \in d.notebook : r.owner = owner_id}

\* the safety filter: str(owner_field) == str(current_user.id) for an owner
\* that is set
SafetyFilter(rows, user) ==
    {r \in rows : r.owner # NoOwner /\ to_string(r.owner) = user}

\* get_notebooks: the query for the caller's notebooks and the safety filter
RouteQuery ==
    /\ route.pc = "query"
    /\ LET result == SelectNotebooks(db, ensure_record_id(route.user))
       IN  route' = RouteReturn([route EXCEPT !.result =
                                    {[id |-> r.id, name |-> r.name] :
                                        r \in SafetyFilter(result, route.user)}], 200)
    /\ UNCHANGED <<db, ncalls>>
    /\ RouteFrame

\* a statement of the route raises: `except Exception` answers 500
RouteFault ==
    /\ route.pc \notin {"idle", "done", "check_order"}
    /\ route' = RouteReturn(route, 500)
    /\ UNCHANGED <<db, ncalls>>
    /\ RouteFrame

\* a request arrives at add_source_to_notebook
RouteLinkStart ==
    /\ ncalls < MaxCalls
    /\ ncalls' = ncalls + 1
    /\ link.pc \in {"idle", "done"}
    /\ \E u \in RouteUsers, n \in NotebookIds, x \in SourceIds :
          /\ SelectUser(db, ensure_record_id(u)) # {}
          /\ link' = [IdleLink EXCEPT !.pc = "get_notebook", !.user = u,
                                      !.notebook_id = n, !.source_id = x]
    /\ UNCHANGED <<db, ext, call, prev, ever, orig, script, aux>>

N1 == RID("notebook", "n1")
S1 == RID("source", "s1")

\* owners of the two records of a table: the first of the first user or of
\* nobody, the second of the second user; or both of the first user
RouteOwners(ids, first) ==
    {[x \in ids |-> IF x = first THEN a ELSE U2] : a \in {U1, NoOwner}}
        \cup {[x \in ids |-> U1]}

\* a notebook row with its name
Named(r) == [id |-> r.id, owner |-> r.owner, name |-> "first"]

\* stores of the routes: notebooks and sources of both users and of nobody;
\* no edge, every edge, every edge and the edge of one pair twice
RouteStores ==
    { [db |-> [d EXCEPT !.notebook = {Named(r) : r \in @}], ext |-> FullExt] :
        d \in { MkDb(on, os, [t \in NoteIds |-> U1], {}, refs, {}, {}, {}, Users) :
                  on \in RouteOwners(NotebookIds, N1),
                  os \in RouteOwners(SourceIds, S1),
                  refs \in { {}, AllRefs,
                             AllRefs \cup {EdgeRow(NewEdgeId(AllRefs, S1, N1), S1, N1)} } } }

InitRoutes ==
    /\ \E s \in RouteStores : db = s.db /\ ext = s.ext /\ orig = s
    /\ call = [c \in AllSlots |-> IdleCall]
    /\ ncalls = 0
    /\ prev = <<>>
    /\ ever = NoFaultYet
    /\ link = IdleLink
    /\ script = IdleScript
    /\ AuxIdle

NextRoutes ==
    \/ RouteStart
    \/ RouteCreate
    \/ RouteGetNotebook
    \/ RouteCount
    \/ RouteSave
    \/ RouteRequery
    \/ RouteDeleteReference
    \/ RouteDelete
    \/ RouteQuery
    \/ RouteFault
    \/ RouteLinkStart
    \/ LinkGetNotebook
    \/ LinkGetSource
    \/ LinkSave
    \/ LinkSelectRef
    \/ LinkRelate

SpecRoutes == InitRoutes /\ [][NextRoutes]_vars

\* the reference edges from the source to the notebook
EdgesOf(d, notebook_id, source_id) ==
    {r \in d.reference : r.in = source_id /\ r.out = notebook_id}

\* C28: whenever an add_source_to_notebook call answers 200, exactly one
\* reference edge goes from its source to its notebook, whether or not the
\* pair was linked before the call.
C28_LinkIsIdempotent ==
    [][(link.pc # "done" /\ link'.pc = "done" /\ link'.status = 200) =>
          Cardinality(EdgesOf(db', link.notebook_id, link.source_id)) = 1]_vars

\* the tables other than reference
OtherTables == DOMAIN db \ {"reference"}

\* C29: the delete statement of a remove_source_from_notebook call that
\* answers 200 leaves no reference edge between its source and its notebook,
\* however many there were, keeps every reference edge of every other pair,
\* adds none and changes no other table.
C29_UnlinkRemovesEveryEdgeOfPair ==
    [][(route.pc = "delete_reference" /\ route'.pc = "done" /\ route'.status = 200) =>
          LET n == route.notebook_id
              x == route.source_id
          IN  /\ \A r \in db'.reference : {r.in, r.out} # {n, x}
              /\ db'.reference \subseteq db.reference
              /\ \A r \in db.reference : {r.in, r.out} # {n, x} => r \in db'.reference
              /\ \A tb \in OtherTables : db'[tb] = db[tb]]_vars

\* the pair was linked twice at the start and once more by a call that
\* answered 200; the remove call has answered 200, no edge of the pair is
\* left, and the edge from the same source to the other notebook is there
C29_Witness ==
    /\ route.op = "remove_source" /\ route.pc = "done" /\ route.status = 200
    /\ route.notebook_id = N1 /\ route.source_id = S1
    /\ link.pc = "done" /\ link.status = 200
    /\ link.notebook_id = N1 /\ link.source_id = S1
    /\ Cardinality(EdgesOf(orig.db, N1, S1)) > 1
    /\ EdgesOf(db, N1, S1) = {}
    /\ \E n \in NotebookIds \ {N1} : EdgesOf(db, n, S1) # {}

\* the row with this id has its owner set to a user other than the caller
ForeignIn(rows, id, user) ==
    \E r \in rows : r.id = id /\ r.owner # NoOwner /\ r.owner # ensure_record_id(user)

\* the steps of a route that come after its ownership check
PastCheck == {"count", "save", "requery", "delete_reference", "delete"}

\* the steps of the link request that come after its two ownership checks
LinkPastChecks == {"save_source", "select_ref", "relate"}

\* a route on a notebook of another user does not get past its check,
\* returns nothing and answers 403, or 500 when the store failed
RouteRefused ==
    (/\ route.op \in NotebookOps
     /\ ForeignIn(db.notebook, route.notebook_id, route.user)) =>
        /\ route.pc \notin PastCheck
        /\ route.result = {}
        /\ (route.pc = "done" => route.status \in {403, 500})

\* get_notebooks returns only notebooks owned by the caller
OnlyOwnListed ==
    route.op = "get_notebooks" =>
        \A x \in route.result :
            \E r \in db.notebook : r.id = x.id /\ r.owner = ensure_record_id(route.user)

\* a link request on a notebook or a source of another user does not get
\* past its checks; it answers 403, or 404 when the source is another
\* user's and the notebook was not found
LinkRefused ==
    /\ ForeignIn(db.notebook, link.notebook_id, link.user) =>
          /\ link.pc \notin LinkPastChecks
          /\ (link.pc = "done" => link.status = 403)
    /\ ForeignIn(db.source, link.source_id, link.user) =>
          /\ link.pc \notin LinkPastChecks
          /\ (link.pc = "done" => link.status \in {403, 404})

\* a step of a route or of the link request that changes the store acts on
\* a notebook, and a source, that are not owned by another user
WritesOwnOnly ==
    /\ (route' # route /\ db' # db) =>
           /\ ~ForeignIn(db.notebook, route.notebook_id, route.user)
           /\ \A r \in db'.notebook :
                  r.id \notin {x.id : x \in db.notebook} =>
                      r.owner = ensure_record_id(route.user)
    /\ (link' # link /\ db' # db) =>
           /\ ~ForeignIn(db.notebook, link.notebook_id, link.user)
           /\ ~ForeignIn(db.source, link.source_id, link.user)

\* C30: a route on a notebook whose owner is another user never gets past
\* its ownership check, answers 403 (500 when the store failed before the
\* check), returns nothing and changes nothing in the store; the link
\* request gets past its checks only when neither the notebook nor the
\* source is owned by another user, and changes the store only then;
\* get_notebooks returns only notebooks whose owner is the caller.
C30_NotebookRoutesIsolateTenants ==
    /\ [](RouteRefused /\ OnlyOwnListed /\ LinkRefused)
    /\ [][WritesOwnOnly]_vars

\* the second user's request to delete the first user's notebook has been
\* answered 403 and the notebook and its edges are still there
C30_Witness ==
    /\ route.op = "delete_notebook" /\ route.pc = "done" /\ route.status = 403
    /\ route.user = StrU2
    /\ \E r \in db.notebook : r.id = route.notebook_id /\ r.owner = U1
    /\ \E e \in db.reference : e.out = route.notebook_id
    /\ db = orig.db

----------------------------------------------------------------------------
(* get_notebooks with an order_by parameter: routers/notebooks.py 16-88 *)

\* the values of safe_order_by that pass the check
AllowedOrders ==
    { <<"updated", "desc">>, <<"updated", "asc">>, <<"created", "desc">>,
      <<"created", "asc">>, <<"name", "asc">>, <<"name", "desc">> }

\* the order_by parameters of the requests: allowed ones, also in upper
\* case, and others
OrderBys ==
    { <<"updated", "desc">>, <<"UPDATED", "DESC">>, <<"Name", "asc">>,
      <<"owner", "desc">>, <<"updated">>, <<>>,
      <<"updated", "desc", ";", "DELETE", "notebook">> }

\* a request arrives at get_notebooks with an order_by parameter
RouteStartList ==
    /\ ncalls < MaxCalls
    /\ ncalls' = ncalls + 1
    /\ route.pc \in {"idle", "done"}
    /\ \E u \in RouteUsers, o \in OrderBys :
          /\ SelectUser(db, ensure_record_id(u)) # {}
          /\ route' = [IdleRoute EXCEPT !.op = "get_notebooks", !.user = u,
                                        !.order_by = o, !.pc = "check_order"]
    /\ UNCHANGED db
    /\ RouteFrame

\* an exception raised inside the try block of get_notebooks is caught by
\* `except Exception` and answered with 500, an HTTPException included
Caught(status) == 500

\* safe_order_by = order_by.lower(); a value outside the allowed set raises
\* HTTPException(400) inside the try block
RouteCheckOrder ==
    /\ route.pc = "check_order"
    /\ route' = IF lower(route.order_by) \in AllowedOrders
                THEN [route EXCEPT !.pc = "query"]
                ELSE RouteReturn(route, Caught(400))
    /\ UNCHANGED <<db, ncalls>>
    /\ RouteFrame

InitOrder == InitRoutes

NextOrder ==
    \/ RouteStartList
    \/ RouteCheckOrder
    \/ RouteQuery
    \/ RouteFault

SpecOrder == InitOrder /\ [][NextOrder]_vars

\* C31: a get_notebooks request whose lower-cased order_by is outside the
\* allowed set never reaches the query and returns no notebook, and once it
\* is answered the answer is 400.
C31_InvalidOrderByIs400 ==
    (route.op = "get_notebooks" /\ lower(route.order_by) \notin AllowedOrders) =>
        /\ route.pc # "query"
        /\ route.result = {}
        /\ route.pc = "done" => route.status = 400

----------------------------------------------------------------------------
(* Provider secrets of the users: open_notebook.domain.user_secret and
   routers/provider_secrets.py *)

\* the routes of the provider-secrets router
SecOps == {"list", "get", "upsert", "delete"}

\* the users who send the requests: the identifier of the first is the
\* beginning of the identifier of the second
SecUsers == {StrU1, StrU10}

SecProviders == {"openai", "gemini"}

\* the value and the label sent with an upsert
NewKey == "key-new"
NewLabel == "label-new"

\* what the secret actions leave alone besides the store and the counter
SecFrame ==
    UNCHANGED <<ext, call, prev, ever, orig, link, script, adm, env, ctx, health,
                route, auth, upl, setadm>>

SecReturn(r, status) == [r EXCEPT !.pc = "done", !.status = status]

\* a request of a user arrives at one of the four routes
SecStart(k) ==
    /\ ncalls < MaxCalls
    /\ ncalls' = ncalls + 1
    /\ sreq[k].pc \in {"idle", "done"}
    /\ \E op \in SecOps, u \in SecUsers, p \in SecProviders :
          sreq' = [sreq EXCEPT ![k] =
                      [IdleSec EXCEPT !.pc = "select", !.op = op, !.user = u,
                                      !.provider = p,
                                      !.value = IF op = "upsert" THEN NewKey ELSE ""]]
    /\ UNCHANGED db
    /\ SecFrame

\* SELECT * FROM user_provider_secret WHERE provider = $provider
SelectByProvider(d, provider) == {r \in d.user_provider_secret : r.provider = provider}

\* the statement that follows get_for_user in each route
AfterGet(op, existing) ==
    CASE op = "delete" -> IF existing = <<>> THEN "done" ELSE "delete"
      [] op = "upsert" -> IF existing = <<>> THEN "create" ELSE "update"

\* list_provider_secrets: list_for_user, [] when the query raised
SecList(k) ==
    /\ sreq[k].pc = "select"
    /\ sreq[k].op = "list"
    /\ \E res \in {list_for_user(db.user_provider_secret, sreq[k].user), {}} :
          sreq' = [sreq EXCEPT ![k] = SecReturn([@ EXCEPT !.result = res], 200)]
    /\ UNCHANGED <<db, ncalls>>
    /\ SecFrame

\* get_provider_secret: get_for_user, 404 without a record, else the
\* decrypted value is returned (500 when it cannot be decrypted)
SecGet(k) ==
    /\ sreq[k].pc = "select"
    /\ sreq[k].op = "get"
    /\ \E results \in Orders(SelectByProvider(db, sreq[k].provider)) \cup {<<>>} :
          LET secret == get_for_user(results, sreq[k].user)
          IN  sreq' = [sreq EXCEPT ![k] =
                  IF secret = <<>> THEN SecReturn(@, 404)
                  ELSE IF get_plain_value(secret) = DecryptError
                       THEN SecReturn([@ EXCEPT !.existing = secret], 500)
                       ELSE SecReturn([@ EXCEPT !.existing = secret,
                                                !.result = {secret},
                                                !.value = get_plain_value(secret)], 200)]
    /\ UNCHANGED <<db, ncalls>>
    /\ SecFrame

\* upsert_secret and delete_for_user: existing = await get_for_user(...),
\* None when the query raised
SecGetExisting(k) ==
    /\ sreq[k].pc = "select"
    /\ sreq[k].op \in {"upsert", "delete"}
    /\ \E results \in Orders(SelectByProvider(db, sreq[k].provider)) \cup {<<>>} :
          LET existing == get_for_user(results, sreq[k].user)
              pc == AfterGet(sreq[k].op, existing)
          IN  sreq' = [sreq EXCEPT ![k] =
                  IF pc = "done" THEN SecReturn(@, 404)
                  ELSE [@ EXCEPT !.existing = existing, !.pc = pc]]
    /\ UNCHANGED <<db, ncalls>>
    /\ SecFrame

\* ObjectModel.delete(): the record with the id of the object is deleted
SecretDelete(d, secret) ==
    [d EXCEPT !.user_provider_secret = {r \in @ : r.id # secret.id}]

\* delete_for_user: await secret.delete()
SecDelete(k) ==
    /\ sreq[k].pc = "delete"
    /\ db' = SecretDelete(db, sreq[k].existing)
    /\ sreq' = [sreq EXCEPT ![k] = SecReturn(@, 204)]
    /\ UNCHANGED ncalls
    /\ SecFrame

\* ObjectModel.save() of an object that has an id: the record is written
\* back with the fields of the object
SecretSave(d, secret) ==
    [d EXCEPT !.user_provider_secret = {IF r.id = secret.id THEN secret ELSE r : r \in @}]

\* upsert_secret: the record found gets the new value and display name and
\* is saved
SecUpdate(k) ==
    /\ sreq[k].pc = "update"
    /\ LET existing == [sreq[k].existing EXCEPT
                            !.encrypted_value = encrypt_value(sreq[k].value),
                            !.display_name = NewLabel]
       IN  /\ db' = SecretSave(db, existing)
           /\ sreq' = [sreq EXCEPT ![k] = SecReturn([@ EXCEPT !.existing = existing,
                                                              !.result = {existing}], 201)]
    /\ UNCHANGED ncalls
    /\ SecFrame

\* the ids the store gives to created secrets, in this order
NewIds == <<"n1", "n2", "n3", "n4">>

\* the id the store gives to a created secret
NewSecretId(rows) ==
    LET free == {i \in DOMAIN NewIds :
                    RID("user_provider_secret", NewIds[i]) \notin {r.id : r \in rows}}
    IN  RID("user_provider_secret", NewIds[CHOOSE i \in free : \A j \in free : i <= j])

\* the records of the pair (user, provider)
OfPair(rows, u, provider) == {r \in rows : r.user = u /\ r.provider = provider}

\* upsert_secret: cls(user=..., provider=..., ...).save() creates a record;
\* when the store keeps the pair unique and has a record of the pair, or
\* when the statement fails, the error is caught and the record is fetched
\* again
SecCreate(k) ==
    /\ sreq[k].pc = "create"
    /\ LET rows == db.user_provider_secret
           secret == [ id |-> NewSecretId(rows),
                       user |-> ensure_record_id(sreq[k].user),
                       provider |-> sreq[k].provider,
                       encrypted_value |-> encrypt_value(sreq[k].value),
                       display_name |-> NewLabel ]
           duplicate == orig.unique /\ OfPair(rows, secret.user, secret.provider) # {}
       IN  \/ /\ ~duplicate
              /\ db' = [db EXCEPT !.user_provider_secret = @ \cup {secret}]
              /\ sreq' = [sreq EXCEPT ![k] = SecReturn([@ EXCEPT !.existing = secret,
                                                                 !.result = {secret}], 201)]
           \/ /\ db' = db
              /\ sreq' = [sreq EXCEPT ![k].pc = "reselect"]
    /\ UNCHANGED ncalls
    /\ SecFrame

\* upsert_secret, in the except block: existing = await get_for_user(...);
\* without a record the error is raised again
SecReselect(k) ==
    /\ sreq[k].pc = "reselect"
    /\ \E results \in Orders(SelectByProvider(db, sreq[k].provider)) \cup {<<>>} :
          LET existing == get_for_user(results, sreq[k].user)
          IN  sreq' = [sreq EXCEPT ![k] =
                  IF existing = <<>> THEN SecReturn(@, 500)
                  ELSE [@ EXCEPT !.existing = existing, !.pc = "update"]]
    /\ UNCHANGED <<db, ncalls>>
    /\ SecFrame

\* the secrets of the two users
SecA == SecretRow("a1", U1, "openai", encrypt_value(KeyA))
SecB == SecretRow("b1", U10, "openai", encrypt_value(KeyB))
SecC == SecretRow("c1", U10, "gemini", encrypt_value(KeyA2))

\* secret tables with at most one record per user and provider
SecretStores == { {}, {SecA}, {SecB}, {SecA, SecB}, {SecA, SecC}, {SecA, SecB, SecC} }

\* the table of the secrets, and whether the store keeps (user, provider)
\* unique
InitSecrets ==
    /\ \E s \in {CHOOSE x \in EmptyTenantStores : TRUE}, t \in SecretStores,
          unique \in BOOLEAN :
          /\ db = [s.db EXCEPT !.user_provider_secret = t]
          /\ ext = s.ext
          /\ orig = [db |-> db, ext |-> ext, unique |-> unique]
    /\ call = [c \in AllSlots |-> IdleCall]
    /\ ncalls = 0
    /\ prev = <<>>
    /\ ever = NoFaultYet
    /\ link = IdleLink
    /\ script = IdleScript
    /\ AuxIdle

NextSecrets ==
    \E k \in SecSlots :
        \/ SecStart(k)
        \/ SecList(k)
        \/ SecGet(k)
        \/ SecGetExisting(k)
        \/ SecDelete(k)
        \/ SecUpdate(k)
        \/ SecCreate(k)
        \/ SecReselect(k)

SpecSecrets == InitSecrets /\ [][NextSecrets]_vars

\* the user field of the record denotes the user of the request
DenotesUser(record, user) == record.user = ensure_record_id(user)

\* C32: a list request that is answered without a failed query returns
\* exactly the secrets whose user field denotes the caller; a get request
\* returns and decrypts only a secret of the caller and of the provider
\* asked for; the record fetched for a delete is the caller's.
C32_SecretsIsolatedPerUser ==
    \A k \in SecSlots :
        /\ (sreq[k].op = "list" /\ sreq[k].pc = "done") =>
              \A r \in sreq[k].result : DenotesUser(r, sreq[k].user)
        /\ (sreq[k].op = "get" /\ sreq[k].existing # <<>>) =>
              /\ DenotesUser(sreq[k].existing, sreq[k].user)
              /\ sreq[k].existing.provider = sreq[k].provider
        /\ (sreq[k].op = "delete" /\ sreq[k].existing # <<>>) =>
              DenotesUser(sreq[k].existing, sreq[k].user)

\* at most one record per user and provider
OnePerPair ==
    \A r1, r2 \in db.user_provider_secret :
        (r1.user = r2.user /\ r1.provider = r2.provider) => r1.id = r2.id

\* a step of an upsert request leaves every record of another pair as it is
UpsertKeepsOtherPairs ==
    \A k \in SecSlots :
        (sreq[k].op = "upsert" /\ sreq[k].pc \in {"update", "create"}
            /\ sreq'[k].pc = "done") =>
            \A r \in db.user_provider_secret :
                (~(DenotesUser(r, sreq[k].user) /\ r.provider = sreq[k].provider))
                    => r \in db'.user_provider_secret

\* C33: at most one user_provider_secret record exists per (user, provider)
\* at any time, and the step of an upsert that writes leaves the records of
\* every other pair unchanged.
C33_UpsertKeepsOnePerPair ==
    /\ []OnePerPair
    /\ [][UpsertKeepsOtherPairs]_vars

----------------------------------------------------------------------------
(* The security dependencies in front of the routes: api.security
   get_current_user, get_current_active_user, require_admin, and the admin
   router behind them *)

\* the bearer tokens: one that jwt.decode rejects (bad signature, expired),
\* one without a subject, and tokens issued to users, one of them unknown
Tokens ==
    { [valid |-> FALSE, sub |-> StrU1], [valid |-> TRUE, sub |-> <<>>],
      [valid |-> TRUE, sub |-> StrU1], [valid |-> TRUE, sub |-> StrU2],
      [valid |-> TRUE, sub |-> StrGhost] }

\* the routes behind require_admin
AdminRoutes == {"list_users", "get_user_detail", "clear_user_data"}

\* the routes reached: the admin routes, and one behind
\* get_current_active_user
AuthRoutes == AdminRoutes \cup {"provider_secrets"}

\* what the dependencies leave alone
AuthFrame ==
    UNCHANGED <<db, ext, call, prev, ever, orig, link, script, env, ctx, health,
                route, sreq, upl, setadm>>

AuthReturn(a, status) == [a EXCEPT !.pc = "done", !.status = status]

\* a request with a bearer token arrives
AuthStart ==
    /\ ncalls < MaxCalls
    /\ ncalls' = ncalls + 1
    /\ auth.pc \in {"idle", "done"}
    /\ \E t \in Tokens, r \in AuthRoutes :
          auth' = [IdleAuth EXCEPT !.pc = "decode", !.route = r, !.token = t]
    /\ adm' = IdleAdm
    /\ AuthFrame

\* get_current_user: jwt.decode raises JWTError, or the payload has no
\* subject: 401
AuthDecode ==
    /\ auth.pc = "decode"
    /\ auth' = IF ~auth.token.valid \/ auth.token.sub = <<>>
               THEN AuthReturn(auth, 401)
               ELSE [auth EXCEPT !.pc = "get_user"]
    /\ UNCHANGED <<adm, ncalls>>
    /\ AuthFrame

\* mutant: only a missing user is rejected
Rejected_MissingOnly(user) == user = <<>>

\* `not user or not user.is_active`
Rejected(user) == user = <<>> \/ ~user.is_active

\* get_current_user: user = await User.get(sub); an exception, no user or
\* an inactive user: 401
AuthGetUser ==
    /\ auth.pc = "get_user"
    /\ \E found \in GetRow(db, "user", ensure_record_id(auth.token.sub)) \cup {<<>>} :
          auth' = IF Rejected(found)
                  THEN AuthReturn(auth, 401)
                  ELSE [auth EXCEPT !.user = found, !.pc = "active"]
    /\ UNCHANGED <<adm, ncalls>>
    /\ AuthFrame

\* get_current_active_user: an inactive user is answered with 400
AuthActive ==
    /\ auth.pc = "active"
    /\ auth' = IF ~auth.user.is_active
               THEN AuthReturn(auth, 400)
               ELSE [auth EXCEPT !.pc = IF auth.route \in AdminRoutes
                                        THEN "admin" ELSE "serve"]
    /\ UNCHANGED <<adm, ncalls>>
    /\ AuthFrame

\* mutant: every active user passes
IsAdmin_Always(user) == TRUE

\* current_user.is_admin
IsAdmin(user) == user.is_admin

\* require_admin: a user who is not an administrator is answered with 403
AuthAdmin ==
    /\ auth.pc = "admin"
    /\ auth' = IF ~IsAdmin(auth.user)
               THEN AuthReturn(auth, 403)
               ELSE [auth EXCEPT !.pc = "serve"]
    /\ UNCHANGED <<adm, ncalls>>
    /\ AuthFrame

\* the dependencies have returned the user and the handler of the route has
\* not been called yet
Admitted(r) ==
    /\ auth.pc = "serve"
    /\ auth.route = r
    /\ adm.pc = "idle"
    /\ \A c \in Slots : call[c].pc = "idle"

\* the handlers of the admin router call the admin service
ServeList == Admitted("list_users") /\ ListStart
ServeDetail == Admitted("get_user_detail") /\ DetailStart
ServeClear ==
    /\ Admitted("clear_user_data")
    /\ \E c \in Slots : StartWith(c, {to_string(auth.user.id)}, RequestIds)

\* the handler has returned and the response is sent
AuthFinish ==
    /\ auth.pc = "serve"
    /\ \/ auth.route \notin AdminRoutes
       \/ adm.pc = "done"
       \/ \E c \in Slots : call[c].pc = "done"
    /\ auth' = [auth EXCEPT !.pc = "done"]
    /\ UNCHANGED <<adm, ncalls>>
    /\ AuthFrame

\* a user row with the flags of the account
Account(u, stamp, active, admin) ==
    [ id |-> u, created |-> stamp, email |-> <<u.id, "@x.org">>,
      is_active |-> active, is_admin |-> admin ]

\* what scripts/set_admin.py leaves alone
SetAdminFrame ==
    UNCHANGED <<ext, call, ncalls, prev, ever, orig, link, script, adm, env, ctx,
                health, route, sreq, auth, upl>>

\* the email arguments: of the first user, of the second user in upper
\* case, and of nobody
Emails == { <<"u1", "@x.org">>, <<"U2", "@x.org">>, <<"ghost", "@x.org">> }

\* set_admin(email, is_admin) is called and suspends at SELECT * FROM user
SetAdminStart ==
    /\ setadm.pc = "idle"
    /\ \E email \in Emails, is_admin \in BOOLEAN :
          setadm' = [IdleSetAdmin EXCEPT !.pc = "select", !.email = email,
                                         !.is_admin = is_admin]
    /\ UNCHANGED db
    /\ SetAdminFrame

\* the users whose email is the argument, both in lower case
ByEmail(users, email) == {u \in users : lower(u.email) = lower(email)}

\* the first user with the email is the target; without one the script
\* prints the users and returns
SetAdminSelect ==
    /\ setadm.pc = "select"
    /\ LET found == ByEmail(db.user, setadm.email)
       IN  \/ /\ found = {}
              /\ setadm' = [setadm EXCEPT !.pc = "done"]
           \/ \E target_user \in found :
                 setadm' = [setadm EXCEPT !.pc = "update", !.user_id = target_user.id]
    /\ UNCHANGED db
    /\ SetAdminFrame

\* UPDATE {user_id} SET is_admin = $is_admin
UpdateIsAdmin(d, user_id, is_admin) ==
    [d EXCEPT !.user = {IF r.id = user_id THEN [r EXCEPT !.is_admin = is_admin] ELSE r :
                            r \in @}]

SetAdminUpdate ==
    /\ setadm.pc = "update"
    /\ db' = UpdateIsAdmin(db, setadm.user_id, setadm.is_admin)
    /\ setadm' = [setadm EXCEPT !.pc = "done"]
    /\ SetAdminFrame

\* stores for the requests: two users with every combination of flags, the
\* second one owning the data
AuthStores ==
    { [db |-> [s.db EXCEPT !.user = {Account(U1, 1, f[1], f[2]), Account(U2, 2, f[3], f[4])}],
       ext |-> s.ext] :
        s \in {x \in EmptyTenantStores : x.db.user_provider_secret # {}},
        f \in [1..4 -> BOOLEAN] }

InitAuth ==
    /\ \E s \in AuthStores : db = s.db /\ ext = s.ext /\ orig = s
    /\ call = [c \in AllSlots |-> IdleCall]
    /\ ncalls = 0
    /\ prev = <<>>
    /\ ever = NoFaultYet
    /\ link = IdleLink
    /\ script = IdleScript
    /\ AuxIdle

NextAuth ==
    \/ AuthStart
    \/ AuthDecode
    \/ AuthGetUser
    \/ AuthActive
    \/ AuthAdmin
    \/ ServeList
    \/ ListSelectUsers
    \/ ListCount
    \/ ListAppend
    \/ ServeDetail
    \/ DetailSelectUser
    \/ DetailQuery
    \/ DetailReturn
    \/ ServeClear
    \/ AuthFinish
    \/ SetAdminStart
    \/ SetAdminSelect
    \/ SetAdminUpdate
    \/ \E c \in Slots :
        \/ CheckUser(c)
        \/ ReapSelect(c)
        \/ ReapEpisode(c)
        \/ Collect(c)
        \/ Delete(c)

SpecAuth == InitAuth /\ [][NextAuth]_vars

\* the request carries a valid token and the row that get_current_user read
\* for its subject, and that row is of an active administrator
ReadAsActiveAdmin(a) ==
    /\ a.token.valid
    /\ a.user # <<>>
    /\ to_string(a.user.id) = a.token.sub
    /\ a.user.is_active
    /\ a.user.is_admin

\* the tables other than the user table
DataOf(d) == [t \in DOMAIN d \ {"user"} |-> d[t]]

\* the row a request carries is the row of the store at the time
\* get_current_user read it
ReadsStoredRow ==
    (auth.pc = "get_user" /\ auth'.pc = "active") => auth'.user \in db.user

\* every step that reads for the admin service or changes the data or the
\* assets belongs to an admitted request that was read as an active
\* administrator's
AdminServiceBehindChecks ==
    (adm' # adm \/ call' # call \/ DataOf(db') # DataOf(db) \/ ext' # ext) =>
        \/ ReadAsActiveAdmin(auth) /\ auth.pc = "serve" /\ auth.route \in AdminRoutes
        \/ adm' = IdleAdm /\ call' = call /\ db' = db /\ ext' = ext

\* a request to an admin route is admitted only when it was read as an
\* active administrator's; every other one is answered with 401 or 403
OthersRejected ==
    auth.route \in AdminRoutes =>
        /\ auth.pc = "serve" => ReadAsActiveAdmin(auth)
        /\ auth.pc = "done" =>
              \/ auth.status \in {401, 403}
              \/ auth.status = 0 /\ ReadAsActiveAdmin(auth)

\* C34: list users, user detail and clear run only for active
\* administrators: a request with an invalid token, of a missing or
\* inactive user or of a user who is not an administrator in the row that
\* get_current_user read from the store is answered with 401 or 403 and
\* never reaches its handler, and no step of the admin service, no read and
\* no change of the data or of the assets happens outside an admitted
\* request of an active administrator.
C34_AdminRoutesRequireActiveAdmin ==
    /\ []OthersRejected
    /\ [][ReadsStoredRow /\ AdminServiceBehindChecks]_vars

\* a user who was an administrator has lost the flag by set_admin and is
\* answered with 403 while the data is untouched
C34_Witness ==
    /\ auth.pc = "done" /\ auth.status = 403
    /\ auth.route = "clear_user_data"
    /\ \E u \in orig.db.user : to_string(u.id) = auth.token.sub /\ u.is_admin
    /\ DataOf(db) = DataOf(orig.db)

\* C36: get_current_active_user never answers 400: every request that is
\* past get_current_user carries the row of an existing user who is active.
C36_InactiveNeverReachesActiveCheck ==
    /\ auth.status # 400
    /\ auth.pc \in {"active", "admin", "serve"} =>
          /\ auth.user.is_active
          /\ \E r \in db.user : r.id = auth.user.id /\ r.is_active

\* the token of an inactive user has been answered with 401
C36_Witness ==
    /\ auth.pc = "done" /\ auth.status = 401
    /\ auth.token.valid
    /\ \E u \in db.user : to_string(u.id) = auth.token.sub /\ ~u.is_active

----------------------------------------------------------------------------
(* scripts/upload_existing_podcasts_to_s3.py: upload_existing_podcasts *)

\* what the script leaves alone
UplFrame ==
    UNCHANGED <<call, ncalls, prev, ever, orig, link, script, adm, env, ctx, health,
                route, sreq, auth, setadm>>

\* open_notebook.storage.build_episode_asset_key for the episode and the
\* name of its file
build_episode_asset_key(id, name) == <<"episodes", id.id, name>>

\* the URL upload_file returns for the key
StorageUrl(key) == <<"s3:", "", "bkt">> \o key

\* Path(p).name
Name(p) == p[Len(p)]

\* the episode of the current iteration
Current(u) == u.episodes[u.i]

\* the loop goes to the next episode, or to the summary after the last one
NextEpisode(u) ==
    IF u.i < Len(u.episodes)
    THEN [u EXCEPT !.i = @ + 1, !.pc = "check", !.storage_url = <<>>]
    ELSE [u EXCEPT !.pc = "done", !.storage_url = <<>>]

\* the script is started: without an S3 configuration it returns at once
UplStart ==
    /\ upl.pc = "idle"
    /\ \E configured \in BOOLEAN :
          upl' = [upl EXCEPT !.pc = IF configured THEN "get_all" ELSE "done"]
    /\ UNCHANGED <<db, ext>>
    /\ UplFrame

\* episodes = await PodcastEpisode.get_all(), in the order of the store; an
\* empty list goes to the summary
UplGetAll ==
    /\ upl.pc = "get_all"
    /\ \E episodes \in Orders(db.episode) :
          upl' = IF episodes = <<>>
                 THEN [upl EXCEPT !.pc = "done"]
                 ELSE [upl EXCEPT !.episodes = episodes, !.i = 1, !.pc = "check"]
    /\ UNCHANGED <<db, ext>>
    /\ UplFrame

\* the three tests at the head of the loop: no audio_file, already in S3,
\* local file not found
Skipped(e, af) == af = NoAudio \/ IsS3Url(af) \/ af \notin e.files

\* the head of the loop: the episode is skipped, or the upload is begun
UplCheck ==
    /\ upl.pc = "check"
    /\ upl' = IF Skipped(ext, Current(upl).audio_file)
              THEN NextEpisode([upl EXCEPT !.skipped_count = @ + 1])
              ELSE [upl EXCEPT !.pc = "upload"]
    /\ UNCHANGED <<db, ext>>
    /\ UplFrame

\* `except S3StorageError` / `except Exception`: the episode is counted as
\* failed
OnError(u) == NextEpisode([u EXCEPT !.failed_count = @ + 1])

\* storage_url = await upload_file(audio_path, key, ...): the object is
\* stored, or the upload raises
UplUpload ==
    /\ upl.pc = "upload"
    /\ LET key == build_episode_asset_key(Current(upl).id, Name(Current(upl).audio_file))
       IN  \/ /\ ext' = [ext EXCEPT !.s3 = @ \cup {key}]
              /\ upl' = [upl EXCEPT !.storage_url = StorageUrl(key), !.pc = "save"]
           \/ /\ ext' = ext
              /\ upl' = OnError(upl)
    /\ UNCHANGED db
    /\ UplFrame

\* PodcastEpisode.save(): the row of the episode gets the fields of the
\* object
EpisodeSave(d, ep) == [d EXCEPT !.episode = {IF r.id = ep.id THEN ep ELSE r : r \in @}]

\* mutant: the local file is deleted although the save failed
OnSaveError_Unlink(u) == [u EXCEPT !.pc = "unlink"]

\* episode.save() raised: the episode is counted as failed
OnSaveError(u) == OnError(u)

\* episode.audio_file = storage_url; await episode.save()
UplSave ==
    /\ upl.pc = "save"
    /\ \/ /\ db' = EpisodeSave(db, [Current(upl) EXCEPT !.audio_file = upl.storage_url])
          /\ upl' = [upl EXCEPT !.pc = "unlink"]
       \/ /\ db' = db
          /\ upl' = OnSaveError(upl)
    /\ UNCHANGED ext
    /\ UplFrame

\* audio_path.unlink(), an OSError is logged; the episode is counted as
\* uploaded
UplUnlink ==
    /\ upl.pc = "unlink"
    /\ ext' \in {Unlink(ext, Current(upl).audio_file), ext}
    /\ upl' = NextEpisode([upl EXCEPT !.uploaded_count = @ + 1])
    /\ UNCHANGED db
    /\ UplFrame

InitUpload ==
    /\ \E s \in AssetStores : db = s.db /\ ext = s.ext /\ orig = s
    /\ call = [c \in AllSlots |-> IdleCall]
    /\ ncalls = 0
    /\ prev = <<>>
    /\ ever = NoFaultYet
    /\ link = IdleLink
    /\ script = IdleScript
    /\ AuxIdle

NextUpload ==
    \/ UplStart
    \/ UplGetAll
    \/ UplCheck
    \/ UplUpload
    \/ UplSave
    \/ UplUnlink

SpecUpload == InitUpload /\ [][NextUpload]_vars

\* the stored locator of an episode
StoredLocator(d, id) == (CHOOSE r \in d.episode : r.id = id).audio_file

\* the episodes the loop has finished
Processed(u) ==
    CASE u.pc \in {"idle", "get_all"} -> 0
      [] u.pc = "done" -> Len(u.episodes)
      [] OTHER -> u.i - 1

\* a local file disappears only in the unlink step of its episode, when the
\* object is stored and the row holds the URL of the object
UnlinkAfterSave ==
    \A f \in ext.files \ ext'.files :
        /\ upl.pc = "unlink"
        /\ f = Current(upl).audio_file
        /\ StoredLocator(db, Current(upl).id) = upl.storage_url
        /\ IsS3Url(upl.storage_url)
        /\ ObjectKey(upl.storage_url) \in ext.s3

\* an episode counted as failed or skipped keeps its stored locator and
\* every local file; a skipped episode had no locator, an S3 locator or no
\* local file, and nothing at all changes when it is skipped
FailedOrSkippedUnchanged ==
    /\ upl'.failed_count # upl.failed_count =>
          /\ upl'.failed_count = upl.failed_count + 1
          /\ db' = db
          /\ ext'.files = ext.files
          /\ ~IsS3Url(StoredLocator(db, Current(upl).id))
    /\ upl'.skipped_count # upl.skipped_count =>
          /\ upl'.skipped_count = upl.skipped_count + 1
          /\ db' = db /\ ext' = ext
          /\ LET af == StoredLocator(db, Current(upl).id)
             IN  af = NoAudio \/ IsS3Url(af) \/ af \notin ext.files

\* the store changes only when the save of the uploaded episode succeeds:
\* the row of that episode gets the URL of the stored object
LocatorMovesOnSave ==
    db' # db =>
        /\ upl.pc = "save"
        /\ ObjectKey(upl.storage_url) \in ext.s3
        /\ db' = EpisodeSave(db, [Current(upl) EXCEPT !.audio_file = upl.storage_url])
        /\ upl'.failed_count = upl.failed_count

\* every finished episode is counted once
CountsAddUp ==
    upl.uploaded_count + upl.skipped_count + upl.failed_count = Processed(upl)

\* C35: a local file is deleted only after its upload succeeded and the
\* episode row was saved with the object-storage URL; a failed upload or
\* save leaves the stored locator and the local files unchanged and counts
\* the episode as failed; an episode in object storage, without a locator
\* or without its local file is skipped with nothing changed; and at every
\* point uploaded + skipped + failed is the number of episodes handled, at
\* the end the number of episodes.
C35_UploadMovesLocatorSafely ==
    /\ []CountsAddUp
    /\ [][UnlinkAfterSave /\ FailedOrSkippedUnchanged /\ LocatorMovesOnSave]_vars

\* the script has ended with one episode uploaded, its file deleted and its
\* row pointing to object storage, and one episode failed
C35_Witness ==
    /\ upl.pc = "done"
    /\ upl.uploaded_count = 1 /\ upl.failed_count = 1
    /\ \E r \in db.episode :
          /\ IsS3Url(r.audio_file)
          /\ StoredLocator(orig.db, r.id) \in orig.ext.files \ ext.files

====
